---- MODULE Spec2Model ----
(***************************************************************************)
(* A model of the streaming log matchers of prequel-logmatch (pkg/match):  *)
(* MatchSeq (seq.go), MatchSet (set.go) and the two InverseSeq variants.   *)
(*                                                                         *)
(* Conventions.  A Go struct is a record, a Go method is an operator from  *)
(* the receiver record (and the arguments) to the new receiver record and  *)
(* the returned Hits.  Go slices are 0-indexed, TLA+ sequences 1-indexed:  *)
(* slot i of the source is slot i+1 here, nActive (a count) is unchanged.  *)
(* A LogEntry is [ts, line, id]; id is the identity of the scanned entry   *)
(* (the n-th retained entry) and is never read by the modelled code.       *)
(* Slice capacities (capThreshold) are not observable through the matcher  *)
(* interface: m[:0] and nil are both the empty sequence.                   *)
(***************************************************************************)
EXTENDS Integers, Sequences, FiniteSets, TLC

VARIABLES
    which,      \* the matcher under test, fixed by the initial state
    seq,        \* the MatchSeq struct
    set,        \* the MatchSet struct
    inv,        \* the InverseSeq struct
    hits,       \* the Hits the last call returned
    op,         \* the last call: its kind and whether its time was behind the clock
    nextId,     \* the identity the next retained entry takes
    emitted,    \* the buffered entries an earlier hit has already returned
    seen,       \* per reset, the timestamps Scan has recorded so far
    invHits,    \* the hits of InverseSeq when it runs side by side with MatchSeq
    call,       \* a constructor or function call: its arguments and what it returned
    offered,    \* per reset, the timestamps of the reset lines Scan has accepted
    twin        \* a second InverseSeq fed the same stream and never collected

vars == <<which, seq, set, inv, hits, op, nextId, emitted, seen, invHits, call, offered, twin>>

(* ------------------------------ bounds --------------------------------- *)

\* Largest timestamp / clock value a caller supplies.
MaxTime == 2

\* Largest number of scanned entries that are retained (buffered or emitted).
MaxEntries == 5

\* Largest number of retained entries in the runs of InverseSeq.
MaxInvEntries == 4

\* Largest number of reset timestamps InverseSeq holds at once.
MaxResets == 2

\* The last timestamp of the stream of the dupe-anchor scenario.
MaxAnchorTime == 14

\* The entries the dupe-anchor scenario retains, at most.
MaxAnchorEntries == 6

\* The reset observations of the dupe-anchor scenario, at most.
MaxAnchorResets == 1

\* The last timestamp of the stream of the four-term sequence.
MaxOrdTime == 1

\* The entries the four-term sequence retains, at most.
MaxOrdEntries == 8

\* The longest of the short term lists handed to a constructor.
MaxNewTerms == 4

\* The largest reset anchor handed to a constructor.
MaxNewAnchor == 4

\* The longest anchor list handed to calcWindowA.
MaxAnchors == 3

\* The largest reset window handed to calcWindowA, of either sign.
MaxWindow == 3

\* The largest reset slide handed to calcWindowA, of either sign.
MaxSlide == 2

(* ----------------------------- constants ------------------------------- *)

\* math.MaxInt64 in the source; the largest integer of the model checker here.
\* Clocks and timestamps are never negative (the clock starts at 0 and older
\* entries are dropped), so no expression of the model overflows.
disableGC == 2147483647

maxTerms == 64

(* ------------------------------ helpers -------------------------------- *)

Times == 0..MaxTime

Min2(a, b) == IF a < b THEN a ELSE b

Max2(a, b) == IF a > b THEN a ELSE b

RECURSIVE Concat(_)
Concat(ss) == IF Len(ss) = 0 THEN <<>> ELSE Head(ss) \o Concat(Tail(ss))

Range(s) == {s[k] : k \in DOMAIN s}

Ids(s) == {s[k].id : k \in DOMAIN s}

Stamps(s) == [k \in DOMAIN s |-> s[k].ts]

NonDecreasing(s) == \A j, k \in DOMAIN s : j < k => s[j] <= s[k]

\* Go's s[:n]: the first n elements.
Take(s, n) == SubSeq(s, 1, n)

\* The number of leading elements of a slice the loop
\*   for _, t := range m { if t.Timestamp >= deadline { break }; cnt += 1 }
\* counts.
CountOlder(m, deadline) ==
    LET stop == {k \in DOMAIN m : m[k].ts >= deadline}
    IN  IF stop = {} THEN Len(m)
        ELSE (CHOOSE k \in stop : \A j \in stop : k <= j) - 1

NoHits == [Cnt |-> 0, Logs |-> <<>>]

RECURSIVE ListsUpTo(_, _)
\* Every list over the set S of at most n elements.
ListsUpTo(S, n) ==
    IF n = 0 THEN {<<>>}
    ELSE LET shorter == ListsUpTo(S, n - 1)
         IN  shorter \cup {Append(l, x) : l \in {t \in shorter : Len(t) = n - 1}, x \in S}

(* ----------------------------- predicates ------------------------------ *)

\* The raw terms a line contains as a substring.
Contains(line) ==
    CASE line = "a"  -> {"a"}
      [] line = "a2" -> {"a"}
      [] line = "b"  -> {"b"}
      [] line = "c"  -> {"c"}
      [] line = "d"  -> {"d"}
      [] line = "ab" -> {"a", "b"}
      [] line = "r"  -> {"r"}
      [] line = "ar" -> {"a", "r"}
      [] OTHER       -> {}

\* makeRawMatch(s)(line): strings.Contains(line, s).
makeRawMatch(s, line) == s \in Contains(line)

(* ------------------------- term slot utilities ------------------------- *)

shiftLeft(terms, idx, cnt) ==
    LET m == terms[idx].asserts
    IN  [terms EXCEPT ![idx].asserts =
            IF cnt < Len(m) THEN SubSeq(m, cnt + 1, Len(m)) ELSE <<>>]

resetTerm(terms, idx) == [terms EXCEPT ![idx].asserts = <<>>]

\* The entry put in front of the asserts of the slot.
appendAssertFront(terms, idx, e) == [terms EXCEPT ![idx].asserts = <<e>> \o @]

appendAssert(terms, idx, e) == [terms EXCEPT ![idx].asserts = Append(@, e)]

\* for i := range n { if terms[i].matcher(line) { append } }
appendMatching(terms, n, e) ==
    [i \in DOMAIN terms |->
        IF i <= n /\ makeRawMatch(terms[i].matcher, e.line)
        THEN [terms[i] EXCEPT !.asserts = Append(@, e)]
        ELSE terms[i]]

\* The entry appended to every active slot it matches.
appendActive(r, e) == [r EXCEPT !.terms = appendMatching(r.terms, r.nActive, e)]

(* ------------------------------ MatchSeq ------------------------------- *)

\* The body of the loop over seqTerms: a term that differs from the last one
\* opens a slot, a repeated term adds to the dupe count of the current slot.
buildSeqStep(acc, term) ==
    IF Len(acc.terms) = 0 \/ term # acc.lastTerm
    THEN [terms    |-> Append(acc.terms, [matcher |-> term, asserts |-> <<>>]),
          dupeMap  |-> Append(acc.dupeMap, 0),
          lastTerm |-> term]
    ELSE [acc EXCEPT !.dupeMap[Len(acc.terms)] = @ + 1]

\* The loop over seqTerms[lo..hi], first to last, from the state acc.  The range
\* is walked in halves, the first half evaluated before the second is entered,
\* so that long term lists stay within the evaluator's stack.
RECURSIVE buildSeqLoop(_, _, _, _)
buildSeqLoop(seqTerms, lo, hi, acc) ==
    IF lo > hi THEN acc
    ELSE IF lo = hi THEN buildSeqStep(acc, seqTerms[lo])
    ELSE LET mid == (lo + hi) \div 2
         IN  CHOOSE r \in {buildSeqLoop(seqTerms, mid + 1, hi, left) :
                               left \in {buildSeqLoop(seqTerms, lo, mid, acc)}} : TRUE

RECURSIVE SumSeq(_)
SumSeq(s) == IF Len(s) = 0 THEN 0 ELSE Head(s) + SumSeq(Tail(s))

\* dupeMap[i] of the source is dupeMap[i+1]; dupeMap[-1] is dupeSum.
buildSeqTerms(seqTerms) ==
    IF Len(seqTerms) = 0
    THEN [err |-> "ErrNoTerms", terms |-> <<>>, dupeMap |-> <<>>, dupeSum |-> 0]
    ELSE LET b == buildSeqLoop(seqTerms, 1, Len(seqTerms),
                               [terms |-> <<>>, dupeMap |-> <<>>, lastTerm |-> ""])
         IN  IF Len(b.terms) > maxTerms
             THEN [err |-> "ErrTooManyTerms", terms |-> <<>>, dupeMap |-> <<>>, dupeSum |-> 0]
             ELSE [err |-> "nil", terms |-> b.terms, dupeMap |-> b.dupeMap,
                   dupeSum |-> SumSeq(b.dupeMap)]

NewMatchSeq(window, seqTerms) ==
    LET b == buildSeqTerms(seqTerms)
    IN  [clock |-> 0, window |-> window, nActive |-> 0,
         terms |-> b.terms, dupeMap |-> b.dupeMap, dupeSum |-> b.dupeSum]

MatchSeq_reset(r) ==
    [r EXCEPT !.terms = [i \in DOMAIN r.terms |-> [r.terms[i] EXCEPT !.asserts = <<>>]],
              !.nActive = 0]

\* The loop of miniGC over the slots 1 .. r.nActive-1 of the source.
RECURSIVE MatchSeq_miniGCLoop(_, _, _, _, _, _, _)
MatchSeq_miniGCLoop(terms, i, oldActive, nActive, forceClear, zeroMatch, dupeMap) ==
    IF i > oldActive THEN [terms |-> terms, nActive |-> nActive]
    ELSE IF forceClear
         THEN MatchSeq_miniGCLoop(resetTerm(terms, i), i + 1, oldActive, nActive,
                                  TRUE, zeroMatch, dupeMap)
         ELSE LET cnt == CountOlder(terms[i].asserts, zeroMatch)
                  t1  == IF cnt > 0 THEN shiftLeft(terms, i, cnt) ELSE terms
              IN  IF Len(t1[i].asserts) > dupeMap[i]
                  THEN MatchSeq_miniGCLoop(t1, i + 1, oldActive, nActive + 1,
                                           FALSE, zeroMatch, dupeMap)
                  ELSE MatchSeq_miniGCLoop(t1, i + 1, oldActive, nActive,
                                           TRUE, zeroMatch, dupeMap)

\* A fix-up that clears on an empty slot 0 and recounts nothing.
MatchSeq_miniGCNoCount(r) ==
    IF Len(r.terms[1].asserts) = 0 THEN MatchSeq_reset(r) ELSE r

MatchSeq_miniGC(r) ==
    IF Len(r.terms[1].asserts) = 0 THEN MatchSeq_reset(r)
    ELSE LET zeroAsserts == r.terms[1].asserts
             zeroDupes   == r.dupeMap[1]
             forceClear  == Len(zeroAsserts) < zeroDupes + 1
             zeroMatch   == IF forceClear THEN 0 ELSE zeroAsserts[zeroDupes + 1].ts
             res == MatchSeq_miniGCLoop(r.terms, 2, r.nActive,
                                        IF forceClear THEN 0 ELSE 1,
                                        forceClear, zeroMatch, r.dupeMap)
         IN  [r EXCEPT !.terms = res.terms, !.nActive = res.nActive]

\* A collection that skips, as maybeGC does, when no slot is active.
MatchSeq_GarbageCollectIdle(r, clock) ==
    IF r.nActive = 0 THEN r
    ELSE LET cnt == CountOlder(r.terms[1].asserts, clock - r.window)
         IN  MatchSeq_miniGC([r EXCEPT !.terms =
                                 IF cnt > 0 THEN shiftLeft(r.terms, 1, cnt) ELSE r.terms])

MatchSeq_GarbageCollect(r, clock) ==
    LET deadline == clock - r.window
        cnt      == CountOlder(r.terms[1].asserts, deadline)
        t1       == IF cnt > 0 THEN shiftLeft(r.terms, 1, cnt) ELSE r.terms
    IN  MatchSeq_miniGC([r EXCEPT !.terms = t1])

MatchSeq_skipGCAlways(r, clock) == TRUE

\* The condition under which maybeGC returns without collecting.
MatchSeq_skipGC(r, clock) ==
    r.nActive = 0 \/ clock - r.terms[1].asserts[1].ts < r.window

MatchSeq_maybeGC(r, clock) ==
    IF MatchSeq_skipGC(r, clock) THEN r ELSE MatchSeq_GarbageCollect(r, clock)

\* The out-of-order test at the head of every Scan.
outOfOrderNever(e, clock) == FALSE

outOfOrderOrEqual(e, clock) == e.ts <= clock

outOfOrder(e, clock) == e.ts < clock

\* A full frame that removes from a slot every assert it returns.
MatchSeq_fireDropHit(hitCnt) == hitCnt

\* The number of asserts of a non-final slot a full frame removes
\* ("Only remove the first item; leave remaining dupes for next match").
MatchSeq_fireDrop(hitCnt) == 1

\* The hit of a full frame and the pruning of the slots, seq.go:84-111.
MatchSeq_fire(r, e) ==
    LET n       == Len(r.terms)
        act     == r.nActive + 1
        dupeCnt == r.dupeMap[act]
        front   == Concat([i \in 1..(n - 1) |-> Take(r.terms[i].asserts, r.dupeMap[i] + 1)])
        t1      == [i \in 1..n |->
                      IF i < n
                      THEN shiftLeft(r.terms, i, MatchSeq_fireDrop(r.dupeMap[i] + 1))[i]
                      ELSE r.terms[i]]
        last    == IF dupeCnt > 0 THEN Take(t1[act].asserts, dupeCnt) ELSE <<>>
        t2      == IF dupeCnt > 0 THEN shiftLeft(t1, act, 1) ELSE t1
    IN  [r    |-> MatchSeq_miniGC([r EXCEPT !.terms = t2, !.nActive = r.nActive + 1]),
         hits |-> [Cnt |-> 1, Logs |-> front \o last \o <<e>>]]

\* Scan once the clock is set and maybeGC has run, seq.go:56-113.
MatchSeq_scanTerms(r2, e) ==
    IF ~makeRawMatch(r2.terms[r2.nActive + 1].matcher, e.line)
    THEN [r |-> r2, hits |-> NoHits]
    ELSE IF Len(r2.terms[r2.nActive + 1].asserts) < r2.dupeMap[r2.nActive + 1]
    THEN [r |-> [r2 EXCEPT !.terms = appendAssert(r2.terms, r2.nActive + 1, e)],
          hits |-> NoHits]
    ELSE IF r2.nActive + 1 < Len(r2.terms)
    THEN [r |-> [r2 EXCEPT !.terms = appendAssert(r2.terms, r2.nActive + 1, e),
                           !.nActive = r2.nActive + 1],
          hits |-> NoHits]
    ELSE MatchSeq_fire(r2, e)

\* The loop over the active slots, seq.go:56-60.
MatchSeq_scanActive(r1, e) ==
    MatchSeq_scanTerms(appendActive(r1, e), e)

MatchSeq_Scan(r, e) ==
    IF outOfOrder(e, r.clock) THEN [r |-> r, hits |-> NoHits]
    ELSE MatchSeq_scanActive(MatchSeq_maybeGC([r EXCEPT !.clock = e.ts], e.ts), e)

\* An Eval that moves the clock forward as Eval of InverseSeq does.
MatchSeq_EvalAdvance(r, clock) ==
    [r |-> [r EXCEPT !.clock = Max2(clock, r.clock)], hits |-> NoHits]

MatchSeq_Eval(r, clock) == [r |-> r, hits |-> NoHits]

(* ------------------------------ bitMaskT ------------------------------- *)

\* A 64-bit mask is the set of its set bits (slot i of the source is i+1).
mask_Set(mask, i) == mask \cup {i}

mask_Clr(mask, i) == mask \ {i}

mask_IsSet(mask, i) == i \in mask

mask_Zeros(mask) == mask = {}

mask_FirstN(mask, n) == \A i \in 1..n : i \in mask

(* ------------------------------ MatchSet ------------------------------- *)

\* uniqs[term]: the slot of the first occurrence of the term, 0 when there is none.
uniqSlot(terms, term) ==
    LET hit == {i \in DOMAIN terms : terms[i].matcher = term}
    IN  IF hit = {} THEN 0 ELSE CHOOSE i \in hit : TRUE

\* The body of the loop over setTerms: a term seen before adds to the dupe count
\* of its slot, a new term opens a slot.
buildSetStep(acc, term) ==
    LET idx == uniqSlot(acc.terms, term)
    IN  IF idx > 0
        THEN [acc EXCEPT !.dupeMap[idx] = @ + 1, !.dupeNil = FALSE]
        ELSE [terms   |-> Append(acc.terms, [matcher |-> term, asserts |-> <<>>]),
              dupeMap |-> Append(acc.dupeMap, 0),
              dupeNil |-> acc.dupeNil]

\* The loop over setTerms[lo..hi], first to last, from the state acc.
RECURSIVE buildSetLoop(_, _, _, _)
buildSetLoop(setTerms, lo, hi, acc) ==
    IF lo > hi THEN acc
    ELSE IF lo = hi THEN buildSetStep(acc, setTerms[lo])
    ELSE LET mid == (lo + hi) \div 2
         IN  CHOOSE r \in {buildSetLoop(setTerms, mid + 1, hi, left) :
                               left \in {buildSetLoop(setTerms, lo, mid, acc)}} : TRUE

\* The limit applied to the terms as supplied.
buildSetTermsSupplied(setTerms) ==
    IF Len(setTerms) = 0
    THEN [err |-> "ErrNoTerms", terms |-> <<>>, dupeMap |-> <<>>, dupeNil |-> TRUE]
    ELSE LET b == buildSetLoop(setTerms, 1, Len(setTerms),
                               [terms |-> <<>>, dupeMap |-> <<>>, dupeNil |-> TRUE])
         IN  IF Len(setTerms) > maxTerms
             THEN [err |-> "ErrTooManyTerms", terms |-> <<>>, dupeMap |-> <<>>, dupeNil |-> TRUE]
             ELSE [err |-> "nil", terms |-> b.terms, dupeMap |-> b.dupeMap,
                   dupeNil |-> b.dupeNil]

\* dupeNil: the source's dupeMap == nil (no term occurs twice).
buildSetTerms(setTerms) ==
    IF Len(setTerms) = 0
    THEN [err |-> "ErrNoTerms", terms |-> <<>>, dupeMap |-> <<>>, dupeNil |-> TRUE]
    ELSE LET b == buildSetLoop(setTerms, 1, Len(setTerms),
                               [terms |-> <<>>, dupeMap |-> <<>>, dupeNil |-> TRUE])
         IN  IF Len(b.terms) > maxTerms
             THEN [err |-> "ErrTooManyTerms", terms |-> <<>>, dupeMap |-> <<>>, dupeNil |-> TRUE]
             ELSE [err |-> "nil", terms |-> b.terms, dupeMap |-> b.dupeMap,
                   dupeNil |-> b.dupeNil]

NewMatchSet(window, setTerms) ==
    LET b == buildSetTerms(setTerms)
    IN  [clock |-> 0, window |-> window, gcMark |-> disableGC, terms |-> b.terms,
         hotMask |-> {}, dupeMap |-> b.dupeMap, dupeNil |-> b.dupeNil]

\* A bookkeeping that clears the hot bit of an empty slot only.
MatchSet_fixSlotKeepHot(r, i) ==
    LET m == r.terms[i].asserts
    IN  IF Len(m) = 0 THEN [r EXCEPT !.hotMask = mask_Clr(@, i)]
        ELSE [r EXCEPT !.gcMark = IF m[1].ts < @ THEN m[1].ts ELSE @]

\* The bookkeeping of one slot after its asserts changed (set.go:91-103, 143-152):
\* the hot bit is cleared when the slot is no longer satisfied and gcMark is
\* lowered to the slot's first timestamp.
MatchSet_fixSlot(r, i) ==
    LET m == r.terms[i].asserts
    IN  IF Len(m) = 0 THEN [r EXCEPT !.hotMask = mask_Clr(@, i)]
        ELSE [r EXCEPT !.hotMask = IF Len(m) <= r.dupeMap[i] THEN mask_Clr(@, i) ELSE @,
                       !.gcMark  = IF m[1].ts < @ THEN m[1].ts ELSE @]

RECURSIVE MatchSet_gcLoop(_, _, _)
MatchSet_gcLoop(r, i, deadline) ==
    IF i > Len(r.terms) THEN r
    ELSE LET cnt == CountOlder(r.terms[i].asserts, deadline)
             r1  == IF cnt > 0 THEN [r EXCEPT !.terms = shiftLeft(r.terms, i, cnt)] ELSE r
         IN  MatchSet_gcLoop(MatchSet_fixSlot(r1, i), i + 1, deadline)

\* A collection that starts from the mark it finds.
MatchSet_GarbageCollectOldMark(r, clock) ==
    MatchSet_gcLoop(r, 1, clock - r.window)

MatchSet_GarbageCollect(r, clock) ==
    MatchSet_gcLoop([r EXCEPT !.gcMark = disableGC], 1, clock - r.window)

\* The condition under which maybeGC returns without collecting.
MatchSet_skipGCAlways(r, clock) == TRUE

MatchSet_skipGC(r, clock) ==
    (mask_Zeros(r.hotMask) /\ r.dupeNil) \/ clock - r.gcMark <= r.window

MatchSet_maybeGC(r, clock) ==
    IF MatchSet_skipGC(r, clock) THEN r ELSE MatchSet_GarbageCollect(r, clock)

\* The loop over all terms of Scan, set.go:50-64.
RECURSIVE MatchSet_scanLoop(_, _, _)
MatchSet_scanLoop(r, i, e) ==
    IF i > Len(r.terms) THEN r
    ELSE IF makeRawMatch(r.terms[i].matcher, e.line)
         THEN LET t1 == appendAssert(r.terms, i, e)
              IN  MatchSet_scanLoop(
                      [r EXCEPT !.terms = t1,
                                !.hotMask = IF Len(t1[i].asserts) > r.dupeMap[i]
                                            THEN mask_Set(@, i) ELSE @,
                                !.gcMark = IF e.ts < @ THEN e.ts ELSE @],
                      i + 1, e)
         ELSE MatchSet_scanLoop(r, i + 1, e)

\* The number of asserts of slot i a hit takes and removes.
MatchSet_hitCntOne(r, i) == 1

MatchSet_hitCnt(r, i) == 1 + r.dupeMap[i]

\* The loop over all terms of a full frame, set.go:75-104.
RECURSIVE MatchSet_fireLoop(_, _, _)
MatchSet_fireLoop(r, i, logs) ==
    IF i > Len(r.terms) THEN [r |-> r, hits |-> [Cnt |-> 1, Logs |-> logs]]
    ELSE LET hitCnt == MatchSet_hitCnt(r, i)
             m      == r.terms[i].asserts
             r1     == [r EXCEPT !.terms[i].asserts = SubSeq(m, hitCnt + 1, Len(m))]
         IN  MatchSet_fireLoop(MatchSet_fixSlot(r1, i), i + 1, logs \o Take(m, hitCnt))

MatchSet_scanNoFire(r2) == [r |-> r2, hits |-> NoHits]

\* Scan after the loop over the terms: the full frame, set.go:66-106.
MatchSet_scanFire(r2) ==
    IF ~mask_FirstN(r2.hotMask, Len(r2.terms))
    THEN [r |-> r2, hits |-> NoHits]
    ELSE MatchSet_fireLoop([r2 EXCEPT !.gcMark = disableGC], 1, <<>>)

MatchSet_Scan(r, e) ==
    IF outOfOrder(e, r.clock) THEN [r |-> r, hits |-> NoHits]
    ELSE MatchSet_scanFire(
             MatchSet_scanLoop(MatchSet_maybeGC([r EXCEPT !.clock = e.ts], e.ts), 1, e))

MatchSet_Eval(r, clock) == [r |-> r, hits |-> NoHits]

(* --------------------------- reset geometry ---------------------------- *)

\* resetT.calcWindowA over the anchor list (anchor is the 0-based index of the
\* source; a non-empty list is all the matchers pass).
\* The width is not clamped at zero.
calcWindowANoClamp(reset, anchors) ==
    IF Len(anchors) = 0 THEN [start |-> 0, stop |-> 0]
    ELSE LET anchor == anchors[reset.anchor + 1].clock + reset.slide
             width  == reset.window +
                       (IF reset.absolute THEN 0
                        ELSE anchors[Len(anchors)].clock - anchors[1].clock)
         IN  [start |-> anchor, stop |-> anchor + width]

calcWindowA(reset, anchors) ==
    IF Len(anchors) = 0 THEN [start |-> 0, stop |-> 0]
    ELSE LET anchor == anchors[reset.anchor + 1].clock + reset.slide
             width  == reset.window +
                       (IF reset.absolute THEN 0
                        ELSE anchors[Len(anchors)].clock - anchors[1].clock)
         IN  [start |-> anchor, stop |-> anchor + (IF width <= 0 THEN 0 ELSE width)]

\* resetT.calcWindow over the first timestamp of every slot: the geometry of
\* calcWindowA (section 4.5 of the specification) on plain timestamps.
calcWindow(reset, stamps) ==
    LET anchor == stamps[reset.anchor + 1] + reset.slide
        width  == reset.window +
                  (IF reset.absolute THEN 0 ELSE stamps[Len(stamps)] - stamps[1])
    IN  [start |-> anchor, stop |-> anchor + Max2(width, 0)]

RECURSIVE calcGCLoop(_, _, _, _, _)
calcGCLoop(window, resets, k, left, right) ==
    IF k > Len(resets) THEN [gcLeft |-> (-1) * left, gcRight |-> right]
    ELSE LET rRight == window + resets[k].window + resets[k].slide
         IN  calcGCLoop(window, resets, k + 1,
                        IF resets[k].slide < left THEN resets[k].slide ELSE left,
                        IF rRight > right THEN rRight ELSE right)

calcGCWindow(window, resets) == calcGCLoop(window, resets, 1, 0, window)

\* The drop of the older variant: always the first assert of slot 0.
shiftAnchorSlotZero(terms, drop) == shiftLeft(terms, 1, 1)

shiftAnchor(terms, drop) ==
    IF drop.offset = 0 THEN shiftLeft(terms, drop.term, 1)
    ELSE LET m == terms[drop.term].asserts
             i == drop.offset + 1
         IN  [terms EXCEPT ![drop.term].asserts =
                 SubSeq(m, 1, i - 1) \o SubSeq(m, i + 1, Len(m))]

\* The resetT of a ResetT: no observation yet.
newReset(spec) ==
    [matcher |-> spec.term, resets |-> <<>>, window |-> spec.window,
     slide |-> spec.slide, anchor |-> spec.anchor, absolute |-> spec.absolute]

(* ------------------ InverseSeq: what both variants share --------------- *)

InverseSeq_resetGcMark(r, nMark) ==
    IF nMark < r.gcMark THEN [r EXCEPT !.gcMark = nMark] ELSE r

\* The slots are cleared and nActive is left as it was.
InverseSeq_resetSlotsOnly(r) ==
    [r EXCEPT !.terms = [i \in DOMAIN r.terms |-> resetTerm(r.terms, i)[i]]]

InverseSeq_reset(r) ==
    [r EXCEPT !.terms = [i \in DOMAIN r.terms |-> resetTerm(r.terms, i)[i]],
              !.nActive = 0]

\* "Run resets": every reset whose term matches records the timestamp.
RECURSIVE InverseSeq_runResets(_, _, _)
InverseSeq_runResets(r, i, e) ==
    IF i > Len(r.resets) THEN r
    ELSE IF makeRawMatch(r.resets[i].matcher, e.line)
         THEN InverseSeq_runResets(
                  InverseSeq_resetGcMark(
                      [r EXCEPT !.resets[i].resets = Append(@, e.ts)],
                      e.ts + r.gcLeft + r.gcRight),
                  i + 1, e)
         ELSE InverseSeq_runResets(r, i + 1, e)

\* slices.BinarySearch(m, deadline) on the sorted observations: the number of
\* observations below the deadline.
searchResets(m, deadline) == Cardinality({k \in DOMAIN m : m[k] < deadline})

\* The clean-up of the reset observations at the end of GarbageCollect.
RECURSIVE InverseSeq_gcResets(_, _, _, _)
InverseSeq_gcResets(r, i, deadline, nMark) ==
    IF i > Len(r.resets) THEN [r EXCEPT !.gcMark = nMark]
    ELSE LET m == r.resets[i].resets
         IN  IF Len(m) = 0 THEN InverseSeq_gcResets(r, i + 1, deadline, nMark)
             ELSE LET cnt == searchResets(m, deadline)
                      m1  == IF cnt > 0 THEN SubSeq(m, cnt + 1, Len(m)) ELSE m
                      v   == m1[1] + r.gcLeft + r.gcRight
                  IN  InverseSeq_gcResets(
                          [r EXCEPT !.resets[i].resets = m1], i + 1, deadline,
                          IF Len(m1) > 0 /\ v < nMark THEN v ELSE nMark)

(* ------------- InverseSeq with a dupe mask (one slot per term) --------- *)

\* The slots whose term occurs more than once in the pattern.
dupeMaskOf(seqTerms) ==
    {i \in DOMAIN seqTerms : \E j \in DOMAIN seqTerms : j # i /\ seqTerms[j] = seqTerms[i]}

NewInverseSeqMask_err(seqTerms, resetTerms) ==
    IF Len(seqTerms) > maxTerms THEN "ErrTooManyTerms"
    ELSE IF Len(seqTerms) = 0 THEN "ErrNoTerms"
    ELSE IF \E k \in DOMAIN resetTerms : resetTerms[k].anchor >= Len(seqTerms)
         THEN "ErrAnchorRange"
    ELSE "nil"

NewInverseSeqMask(window, seqTerms, resetTerms) ==
    LET resets == [k \in DOMAIN resetTerms |-> newReset(resetTerms[k])]
        gc     == calcGCWindow(window, resets)
    IN  [impl |-> "mask", clock |-> 0, window |-> window, gcMark |-> disableGC,
         gcLeft |-> gc.gcLeft, gcRight |-> gc.gcRight, nActive |-> 0,
         dupeMask |-> dupeMaskOf(seqTerms),
         terms |-> [i \in DOMAIN seqTerms |-> [matcher |-> seqTerms[i], asserts |-> <<>>]],
         resets |-> resets]

\* The key of the miniGC dupe map (every entry has the empty stream).
dupeT(e) == [Line |-> e.line, Timestamp |-> e.ts]

\* The number of leading asserts the TERMLOOP of miniGC counts.
InvSeqMask_termLoop(m, zeroMatch, isDupe, dupes) ==
    LET stop == {k \in DOMAIN m :
                    ~(m[k].ts < zeroMatch \/ (isDupe /\ dupeT(m[k]) \in dupes))}
    IN  IF stop = {} THEN Len(m)
        ELSE (CHOOSE k \in stop : \A j \in stop : k <= j) - 1

RECURSIVE InvSeqMask_miniGCLoop(_, _, _, _, _, _, _)
InvSeqMask_miniGCLoop(terms, i, oldActive, nActive, forceClear, zeroMatch, st) ==
    IF i > oldActive THEN [terms |-> terms, nActive |-> nActive]
    ELSE IF forceClear
         THEN InvSeqMask_miniGCLoop(resetTerm(terms, i), i + 1, oldActive, nActive,
                                    TRUE, zeroMatch, st)
         ELSE LET isDupe == mask_IsSet(st.dupeMask, i)
                  cnt == InvSeqMask_termLoop(terms[i].asserts, zeroMatch, isDupe, st.dupes)
                  t1  == IF cnt > 0 THEN shiftLeft(terms, i, cnt) ELSE terms
              IN  IF Len(t1[i].asserts) > 0
                  THEN InvSeqMask_miniGCLoop(t1, i + 1, oldActive, nActive + 1, FALSE,
                           zeroMatch,
                           [st EXCEPT !.dupes = IF isDupe
                                                THEN @ \cup {dupeT(t1[i].asserts[1])}
                                                ELSE @])
                  ELSE InvSeqMask_miniGCLoop(t1, i + 1, oldActive, nActive, TRUE,
                                             zeroMatch, st)

InvSeqMask_miniGC(r) ==
    IF Len(r.terms[1].asserts) = 0 THEN InverseSeq_reset(r)
    ELSE LET first == r.terms[1].asserts[1]
             dupes == IF ~mask_Zeros(r.dupeMask) /\ mask_IsSet(r.dupeMask, 1)
                      THEN {dupeT(first)} ELSE {}
             res == InvSeqMask_miniGCLoop(r.terms, 2, r.nActive, 1, FALSE, first.ts,
                                          [dupeMask |-> r.dupeMask, dupes |-> dupes])
         IN  [r EXCEPT !.terms = res.terms, !.nActive = res.nActive]

\* The closed-interval test of checkReset on one observation.
inResetWindowOpenStop(ts, w) == ts >= w.start /\ ts < w.stop

inResetWindow(ts, w) == ts >= w.start /\ ts <= w.stop

\* "If the reset window is in the future, we cannot come to a conclusion."
mustWaitStrict(stop, clock) == stop > clock

mustWait(stop, clock) == stop >= clock

\* checkReset: [retry, anchor]; anchor 255 (math.MaxUint8) is "no reset hit".
RECURSIVE InvSeqMask_checkLoop(_, _, _, _)
InvSeqMask_checkLoop(r, i, stamps, clock) ==
    IF i > Len(r.resets) THEN [retry |-> 0, anchor |-> 255]
    ELSE LET reset == r.resets[i]
             w     == calcWindow(reset, stamps)
         IN  IF \E k \in DOMAIN reset.resets : inResetWindow(reset.resets[k], w)
             THEN [retry |-> 0, anchor |-> reset.anchor]
             ELSE IF mustWait(w.stop, clock)
             THEN [retry |-> w.stop - clock + 1, anchor |-> 255]
             ELSE InvSeqMask_checkLoop(r, i + 1, stamps, clock)

\* Every reset measured from the first slot, whatever its anchor.
InvSeqMask_checkResetFirst(r, clock) ==
    InvSeqMask_checkLoop(r, 1, [i \in DOMAIN r.terms |-> r.terms[1].asserts[1].ts], clock)

InvSeqMask_checkReset(r, clock) ==
    InvSeqMask_checkLoop(r, 1, [i \in DOMAIN r.terms |-> r.terms[i].asserts[1].ts], clock)

\* The window test of _eval on the first and the last slot.
windowMiss(tStart, tStop, window) == tStop - tStart > window

\* One round of the loop of _eval on a full frame: miss is the window test,
\* chk the result of checkReset.
RECURSIVE InvSeqMask_eval(_, _, _)
InvSeqMask_evalStep(r, clock, h, miss, chk) ==
    IF ~miss /\ chk.anchor = 255 /\ chk.retry > 0 THEN [r |-> r, hits |-> h]
    ELSE IF miss \/ chk.anchor # 255
    THEN InvSeqMask_eval(
             InvSeqMask_miniGC(
                 [r EXCEPT !.terms =
                     shiftLeft(r.terms, (IF miss THEN 0 ELSE chk.anchor) + 1, 1)]),
             clock, h)
    ELSE InvSeqMask_eval(
             InvSeqMask_miniGC(
                 [r EXCEPT !.terms = [i \in DOMAIN r.terms |-> shiftLeft(r.terms, i, 1)[i]]]),
             clock,
             [Cnt |-> h.Cnt + 1,
              Logs |-> h.Logs \o [i \in DOMAIN r.terms |-> r.terms[i].asserts[1]]])

\* checkReset runs when the frame is within the window and there are resets.
InvSeqMask_evalCheck(r, clock, h, miss) ==
    InvSeqMask_evalStep(r, clock, h, miss,
                        IF ~miss /\ Len(r.resets) > 0
                        THEN InvSeqMask_checkReset(r, clock)
                        ELSE [retry |-> 0, anchor |-> 255])

InvSeqMask_eval(r, clock, h) ==
    IF r.nActive # Len(r.terms) THEN [r |-> r, hits |-> h]
    ELSE InvSeqMask_evalCheck(r, clock, h,
             windowMiss(r.terms[1].asserts[1].ts,
                        r.terms[Len(r.terms)].asserts[1].ts, r.window))

(* ------------- InverseSeq with a dupe map (collapsed dupe runs) -------- *)

RECURSIVE maybeAnchorLoop(_, _, _, _, _)
maybeAnchorLoop(nTerms, dupeMap, anchor, i, curOff) ==
    IF i > nTerms THEN FALSE
    ELSE IF anchor < curOff + 1 THEN TRUE
    ELSE IF anchor < curOff + 1 + dupeMap[i] THEN FALSE
    ELSE maybeAnchorLoop(nTerms, dupeMap, anchor, i + 1, curOff + 1 + dupeMap[i])

\* Every anchor passes.
maybeAnchorAny(nTerms, dupeMap, anchor) == TRUE

\* dupeMap == nil in the source: no slot has a dupe.
maybeAnchor(nTerms, dupeMap, anchor) ==
    IF (\A i \in DOMAIN dupeMap : dupeMap[i] = 0) \/ anchor = 0 THEN TRUE
    ELSE maybeAnchorLoop(nTerms, dupeMap, anchor, 1, 0)

NewInverseSeqMap_err(seqTerms, resetTerms) ==
    LET b == buildSeqTerms(seqTerms)
        bad(k) == IF resetTerms[k].anchor >= Len(seqTerms) THEN "ErrAnchorRange"
                  ELSE IF ~maybeAnchor(Len(b.terms), b.dupeMap, resetTerms[k].anchor)
                       THEN "ErrAnchorNoDupes" ELSE "nil"
        fails == {k \in DOMAIN resetTerms : bad(k) # "nil"}
    IN  IF b.err # "nil" THEN b.err
        ELSE IF fails = {} THEN "nil"
        ELSE bad(CHOOSE k \in fails : \A j \in fails : k <= j)

NewInverseSeqMap(window, seqTerms, resetTerms) ==
    LET b      == buildSeqTerms(seqTerms)
        resets == [k \in DOMAIN resetTerms |-> newReset(resetTerms[k])]
        gc     == calcGCWindow(window, resets)
    IN  [impl |-> "map", clock |-> 0, window |-> window, gcMark |-> disableGC,
         gcLeft |-> gc.gcLeft, gcRight |-> gc.gcRight, nActive |-> 0,
         terms |-> b.terms, resets |-> resets,
         dupeMap |-> b.dupeMap, dupeSum |-> b.dupeSum]

\* The scan of one slot in miniGC: the asserts older than zeroMatch are counted,
\* the first one that is not becomes the new zeroMatch.
RECURSIVE InvSeqMap_miniGCLoop(_, _, _, _, _, _, _)
InvSeqMap_miniGCLoop(terms, i, oldActive, nActive, forceClear, zeroMatch, dupeMap) ==
    IF i > oldActive THEN [terms |-> terms, nActive |-> nActive]
    ELSE IF forceClear
         THEN InvSeqMap_miniGCLoop(resetTerm(terms, i), i + 1, oldActive, nActive,
                                   TRUE, zeroMatch, dupeMap)
         ELSE LET m    == terms[i].asserts
                  cnt  == CountOlder(m, zeroMatch)
                  zero == IF cnt < Len(m) THEN m[cnt + 1].ts ELSE zeroMatch
                  t1   == IF cnt > 0 THEN shiftLeft(terms, i, cnt) ELSE terms
              IN  IF Len(t1[i].asserts) > dupeMap[i]
                  THEN InvSeqMap_miniGCLoop(t1, i + 1, oldActive, nActive + 1, FALSE,
                                            zero, dupeMap)
                  ELSE InvSeqMap_miniGCLoop(t1, i + 1, oldActive, nActive, TRUE,
                                            zero, dupeMap)

InvSeqMap_miniGC(r) ==
    LET nZeroAsserts == Len(r.terms[1].asserts)
    IN  IF nZeroAsserts = 0 THEN InverseSeq_reset(r)
        ELSE LET hot == nZeroAsserts > r.dupeMap[1]
                 res == InvSeqMap_miniGCLoop(r.terms, 2, r.nActive,
                                             IF hot THEN 1 ELSE 0, ~hot,
                                             r.terms[1].asserts[1].ts, r.dupeMap)
             IN  [r EXCEPT !.terms = res.terms, !.nActive = res.nActive]

\* "Gather timestamps from match": one anchor per consumed assert.
InvSeqMap_anchors(r) ==
    Concat([i \in DOMAIN r.terms |->
               [j \in 1..(r.dupeMap[i] + 1) |->
                   [clock |-> r.terms[i].asserts[j].ts, term |-> i, offset |-> j - 1]]])

\* checkReset: an anchorT; term 0 is the source's term -1 ("no reset hit").
RECURSIVE InvSeqMap_checkLoop(_, _, _, _)
InvSeqMap_checkLoop(r, i, anchors, clock) ==
    IF i > Len(r.resets) THEN [clock |-> 0, term |-> 0, offset |-> 0]
    ELSE LET reset == r.resets[i]
             w     == calcWindowA(reset, anchors)
         IN  IF \E k \in DOMAIN reset.resets : inResetWindow(reset.resets[k], w)
             THEN anchors[reset.anchor + 1]
             ELSE IF mustWait(w.stop, clock)
             THEN [clock |-> w.stop - clock + 1, term |-> 0, offset |-> 0]
             ELSE InvSeqMap_checkLoop(r, i + 1, anchors, clock)

InvSeqMap_checkReset(r, clock) == InvSeqMap_checkLoop(r, 1, InvSeqMap_anchors(r), clock)

\* One round of the loop of _eval on a full frame: miss is the window test,
\* anchor the result of checkReset.
RECURSIVE InvSeqMap_eval(_, _, _)
InvSeqMap_evalStep(r, clock, h, miss, anchor) ==
    IF ~miss /\ anchor.term = 0 /\ anchor.clock > 0 THEN [r |-> r, hits |-> h]
    ELSE IF miss \/ anchor.term > 0
    THEN InvSeqMap_eval(
             InvSeqMap_miniGC(
                 [r EXCEPT !.terms =
                     shiftAnchor(r.terms,
                                 IF miss THEN [clock |-> 0, term |-> 1, offset |-> 0]
                                 ELSE anchor)]),
             clock, h)
    ELSE InvSeqMap_eval(
             InvSeqMap_miniGC(
                 [r EXCEPT !.terms =
                     [i \in DOMAIN r.terms |-> shiftLeft(r.terms, i, r.dupeMap[i] + 1)[i]]]),
             clock,
             [Cnt |-> h.Cnt + 1,
              Logs |-> h.Logs \o
                  Concat([i \in DOMAIN r.terms |->
                             Take(r.terms[i].asserts, r.dupeMap[i] + 1)])])

\* checkReset runs when the frame is within the window and there are resets.
InvSeqMap_evalCheck(r, clock, h, miss) ==
    InvSeqMap_evalStep(r, clock, h, miss,
                       IF ~miss /\ Len(r.resets) > 0
                       THEN InvSeqMap_checkReset(r, clock)
                       ELSE [clock |-> 0, term |-> 0, offset |-> 0])

InvSeqMap_eval(r, clock, h) ==
    IF r.nActive # Len(r.terms) THEN [r |-> r, hits |-> h]
    ELSE InvSeqMap_evalCheck(r, clock, h,
             windowMiss(r.terms[1].asserts[1].ts,
                        r.terms[Len(r.terms)].asserts[r.dupeMap[Len(r.terms)] + 1].ts,
                        r.window))

(* --------------------- InverseSeq: the three calls --------------------- *)

InverseSeq_miniGC(r) ==
    IF r.impl = "mask" THEN InvSeqMask_miniGC(r) ELSE InvSeqMap_miniGC(r)

\* An _eval that counts one hit however many frames it returns.
InverseSeq_evalCntOne(r, clock) ==
    LET res == IF r.impl = "mask" THEN InvSeqMask_eval(r, clock, NoHits)
               ELSE InvSeqMap_eval(r, clock, NoHits)
    IN  [res EXCEPT !.hits.Cnt = IF @ > 0 THEN 1 ELSE 0]

InverseSeq_eval(r, clock) ==
    IF r.impl = "mask" THEN InvSeqMask_eval(r, clock, NoHits)
    ELSE InvSeqMap_eval(r, clock, NoHits)

gcNeverDeferred(r) == FALSE

\* "Special case": all the terms are hot and there are resets.
gcDeferred(r) == r.nActive = Len(r.terms) /\ Len(r.resets) > 0

\* The first slot without the asserts older than the deadline.
InverseSeq_gcTerms(r, deadline) ==
    LET cnt == CountOlder(r.terms[1].asserts, deadline)
    IN  IF cnt > 0 THEN [r EXCEPT !.terms = shiftLeft(r.terms, 1, cnt)] ELSE r

\* The new mark of the slots and the clean-up of the resets, after miniGC.
InverseSeq_gcFinish(r1, deadline) ==
    InverseSeq_gcResets(r1, 1, deadline - r1.gcLeft,
                        IF r1.nActive > 0 THEN r1.terms[1].asserts[1].ts + r1.gcRight
                        ELSE disableGC)

\* A collection that defers without touching the mark.
InverseSeq_GarbageCollectKeepMark(r, clock) ==
    IF gcDeferred(r) THEN r
    ELSE InverseSeq_gcFinish(
             InverseSeq_miniGC(InverseSeq_gcTerms(r, clock - r.gcRight)),
             clock - r.gcRight)

InverseSeq_GarbageCollect(r, clock) ==
    IF gcDeferred(r)
    THEN [r EXCEPT !.gcMark = disableGC]
    ELSE InverseSeq_gcFinish(
             InverseSeq_miniGC(InverseSeq_gcTerms(r, clock - r.gcRight)),
             clock - r.gcRight)

InverseSeq_maybeGC(r, clock) ==
    IF clock < r.gcMark THEN r ELSE InverseSeq_GarbageCollect(r, clock)

evalStaleNever(clock, rclock) == FALSE

\* Eval returns at once unless the clock moves forward.
evalStale(clock, rclock) == clock <= rclock

InverseSeq_Eval(r, clock) ==
    IF evalStale(clock, r.clock) THEN [r |-> r, hits |-> NoHits]
    ELSE InverseSeq_eval([r EXCEPT !.clock = clock], clock)

\* A switch that never returns early.
InvSeqMask_zeroMatchNoSkip(r, e) ==
    [skip |-> FALSE,
     zeroMatch |-> r.nActive = 0 /\ r.gcLeft = 0
                   /\ makeRawMatch(r.terms[r.nActive + 1].matcher, e.line)]

\* "Zero match optimization": the switch at the head of Scan.
\* [skip: return at once, zeroMatch: the first slot matched].
InvSeqMask_zeroMatch(r, e) ==
    IF r.nActive > 0 \/ r.gcLeft > 0 THEN [skip |-> FALSE, zeroMatch |-> FALSE]
    ELSE IF ~makeRawMatch(r.terms[r.nActive + 1].matcher, e.line)
         THEN [skip |-> TRUE, zeroMatch |-> FALSE]
         ELSE [skip |-> FALSE, zeroMatch |-> TRUE]

InvSeqMap_zeroMatch(r, e) ==
    IF Len(r.terms[1].asserts) > 0 \/ r.gcLeft > 0 THEN [skip |-> FALSE, zeroMatch |-> FALSE]
    ELSE IF ~makeRawMatch(r.terms[1].matcher, e.line)
         THEN [skip |-> TRUE, zeroMatch |-> FALSE]
         ELSE [skip |-> FALSE, zeroMatch |-> TRUE]

\* Scan of the dupe-mask variant, stage by stage: the frame is complete.
InvSeqMask_scanAdvance(r4, e) ==
    IF r4.nActive < Len(r4.terms) THEN [r |-> r4, hits |-> NoHits]
    ELSE InverseSeq_eval(r4, e.ts)

\* The slot after the active ones.
InvSeqMask_scanNext(r3, e, zeroMatch) ==
    IF r3.nActive < Len(r3.terms)
    THEN IF ~zeroMatch /\ ~makeRawMatch(r3.terms[r3.nActive + 1].matcher, e.line)
         THEN [r |-> r3, hits |-> NoHits]
         ELSE InvSeqMask_scanAdvance(
                  InverseSeq_resetGcMark(
                      [r3 EXCEPT !.terms = appendAssert(r3.terms, r3.nActive + 1, e),
                                 !.nActive = r3.nActive + 1],
                      e.ts + r3.gcRight),
                  e)
    ELSE InverseSeq_eval(r3, e.ts)

\* The resets and the active slots.
InvSeqMask_scanActive(r1, e, z) ==
    IF z.skip THEN [r |-> r1, hits |-> NoHits]
    ELSE InvSeqMask_scanNext(
             appendActive(InverseSeq_runResets(r1, 1, e), e), e, z.zeroMatch)

InvSeqMask_scanZero(r1, e) == InvSeqMask_scanActive(r1, e, InvSeqMask_zeroMatch(r1, e))

InvSeqMask_Scan(r, e) ==
    IF outOfOrder(e, r.clock) THEN [r |-> r, hits |-> NoHits]
    ELSE InvSeqMask_scanZero(InverseSeq_maybeGC([r EXCEPT !.clock = e.ts], e.ts), e)

\* Scan of the dupe-map variant, stage by stage: the dupes of the slot.
InvSeqMap_scanAdvance(r4, e, act) ==
    IF Len(r4.terms[act].asserts) <= r4.dupeMap[act]
    THEN [r |-> r4, hits |-> NoHits]
    ELSE IF r4.nActive + 1 < Len(r4.terms)
    THEN [r |-> [r4 EXCEPT !.nActive = r4.nActive + 1], hits |-> NoHits]
    ELSE InverseSeq_eval([r4 EXCEPT !.nActive = r4.nActive + 1], e.ts)

\* The slot after the active ones.
InvSeqMap_scanNext(r3, e, zeroMatch) ==
    IF r3.nActive < Len(r3.terms)
    THEN IF ~zeroMatch /\ ~makeRawMatch(r3.terms[r3.nActive + 1].matcher, e.line)
         THEN [r |-> r3, hits |-> NoHits]
         ELSE InvSeqMap_scanAdvance(
                  InverseSeq_resetGcMark(
                      [r3 EXCEPT !.terms = appendAssert(r3.terms, r3.nActive + 1, e)],
                      e.ts + r3.gcRight),
                  e, r3.nActive + 1)
    ELSE InverseSeq_eval(r3, e.ts)

\* The resets and the active slots.
InvSeqMap_scanActive(r1, e, z) ==
    IF z.skip THEN [r |-> r1, hits |-> NoHits]
    ELSE InvSeqMap_scanNext(
             appendActive(InverseSeq_runResets(r1, 1, e), e), e, z.zeroMatch)

InvSeqMap_scanZero(r1, e) == InvSeqMap_scanActive(r1, e, InvSeqMap_zeroMatch(r1, e))

InvSeqMap_Scan(r, e) ==
    IF outOfOrder(e, r.clock) THEN [r |-> r, hits |-> NoHits]
    ELSE InvSeqMap_scanZero(InverseSeq_maybeGC([r EXCEPT !.clock = e.ts], e.ts), e)

InverseSeq_Scan(r, e) ==
    IF r.impl = "mask" THEN InvSeqMask_Scan(r, e) ELSE InvSeqMap_Scan(r, e)

(* ------------------- index expressions out of range -------------------- *)

\* A call panics when an index expression it evaluates is out of range.  Each
\* operator below is TRUE when the call reaches such an expression; a slice
\* expression s[:n] counts when n exceeds the length.

\* maybeGC reads r.terms[0].asserts[0] unless nActive == 0, seq.go:117.
MatchSeq_maybeGCPanics(r) == r.nActive # 0 /\ Len(r.terms[1].asserts) = 0

\* The loop of miniGC reads r.terms[i] for every i < r.nActive, seq.go:169-198.
MatchSeq_miniGCPanics(r) ==
    Len(r.terms[1].asserts) > 0 /\ r.nActive > Len(r.terms)

MatchSeq_GarbageCollectPanics(r, clock) ==
    MatchSeq_miniGCPanics(
        [r EXCEPT !.terms = shiftLeft(r.terms, 1,
                                CountOlder(r.terms[1].asserts, clock - r.window))])

\* Scan once maybeGC has run: r.terms[i] for i < nActive (seq.go:56-60),
\* r.terms[r.nActive] (seq.go:62) and asserts[:hitCnt] of a full frame
\* (seq.go:88-90).
MatchSeq_scanPanics(r2, e) ==
    \/ r2.nActive >= Len(r2.terms)
    \/ /\ makeRawMatch(r2.terms[r2.nActive + 1].matcher, e.line)
       /\ Len(r2.terms[r2.nActive + 1].asserts) >= r2.dupeMap[r2.nActive + 1]
       /\ r2.nActive + 1 = Len(r2.terms)
       /\ \E i \in 1..(Len(r2.terms) - 1) :
              Len(appendActive(r2, e).terms[i].asserts) < r2.dupeMap[i] + 1

MatchSeq_ScanPanics(r, e) ==
    /\ ~outOfOrder(e, r.clock)
    /\ \/ MatchSeq_maybeGCPanics(r)
       \/ ~MatchSeq_skipGC(r, e.ts) /\ MatchSeq_GarbageCollectPanics(r, e.ts)
       \/ MatchSeq_scanPanics(MatchSeq_maybeGC([r EXCEPT !.clock = e.ts], e.ts), e)

\* A full frame takes m[0:hitCnt] of every slot, set.go:75-83.
MatchSet_firePanics(r2) ==
    /\ mask_FirstN(r2.hotMask, Len(r2.terms))
    /\ \E i \in DOMAIN r2.terms : Len(r2.terms[i].asserts) < MatchSet_hitCnt(r2, i)

MatchSet_ScanPanics(r, e) ==
    /\ ~outOfOrder(e, r.clock)
    /\ MatchSet_firePanics(
           MatchSet_scanLoop(MatchSet_maybeGC([r EXCEPT !.clock = e.ts], e.ts), 1, e))

\* The asserts a round of _eval reads in slot i: the first one, and in the
\* dupe-map variant the dupes of the slot as well.
InverseSeq_frameCnt(r, i) == IF r.impl = "mask" THEN 1 ELSE r.dupeMap[i] + 1

\* tStart and tStop of a round, part_002:198-199, part_003:210-211.
InverseSeq_edgesPanic(r) ==
    \/ Len(r.terms[1].asserts) = 0
    \/ Len(r.terms[Len(r.terms)].asserts) < InverseSeq_frameCnt(r, Len(r.terms))

\* checkReset and the hit read every slot, and the anchor of every reset
\* (part_002:426-432, 227-230; part_003:408-422, 238-244).
InverseSeq_slotsPanic(r) ==
    \/ \E i \in DOMAIN r.terms : Len(r.terms[i].asserts) < InverseSeq_frameCnt(r, i)
    \/ \E k \in DOMAIN r.resets :
           r.resets[k].anchor >=
               SumSeq([i \in DOMAIN r.terms |-> InverseSeq_frameCnt(r, i)])

InverseSeq_windowMiss(r) ==
    windowMiss(r.terms[1].asserts[1].ts,
               r.terms[Len(r.terms)].asserts[InverseSeq_frameCnt(r, Len(r.terms))].ts,
               r.window)

\* The matcher after one round of the loop of _eval on a full frame;
\* wait: the round returned ("We must wait").
InvSeqMask_evalRound(r, clock, miss, chk) ==
    IF ~miss /\ chk.anchor = 255 /\ chk.retry > 0 THEN [wait |-> TRUE, r |-> r]
    ELSE IF miss \/ chk.anchor # 255
    THEN [wait |-> FALSE,
          r |-> InvSeqMask_miniGC(
                    [r EXCEPT !.terms =
                        shiftLeft(r.terms, (IF miss THEN 0 ELSE chk.anchor) + 1, 1)])]
    ELSE [wait |-> FALSE,
          r |-> InvSeqMask_miniGC(
                    [r EXCEPT !.terms =
                        [i \in DOMAIN r.terms |-> shiftLeft(r.terms, i, 1)[i]]])]

InvSeqMap_evalRound(r, clock, miss, anchor) ==
    IF ~miss /\ anchor.term = 0 /\ anchor.clock > 0 THEN [wait |-> TRUE, r |-> r]
    ELSE IF miss \/ anchor.term > 0
    THEN [wait |-> FALSE,
          r |-> InvSeqMap_miniGC(
                    [r EXCEPT !.terms =
                        shiftAnchor(r.terms,
                                    IF miss THEN [clock |-> 0, term |-> 1, offset |-> 0]
                                    ELSE anchor)])]
    ELSE [wait |-> FALSE,
          r |-> InvSeqMap_miniGC(
                    [r EXCEPT !.terms =
                        [i \in DOMAIN r.terms |->
                            shiftLeft(r.terms, i, r.dupeMap[i] + 1)[i]]])]

\* A round that neither waits nor touches the slots: it leaves the loop by
\* clearing nActive.
InverseSeq_evalRoundIdle(r, clock, miss) ==
    [wait |-> FALSE, r |-> [r EXCEPT !.nActive = 0]]

InverseSeq_evalRound(r, clock, miss) ==
    IF r.impl = "mask"
    THEN InvSeqMask_evalRound(r, clock, miss,
             IF ~miss /\ Len(r.resets) > 0 THEN InvSeqMask_checkReset(r, clock)
             ELSE [retry |-> 0, anchor |-> 255])
    ELSE InvSeqMap_evalRound(r, clock, miss,
             IF ~miss /\ Len(r.resets) > 0 THEN InvSeqMap_checkReset(r, clock)
             ELSE [clock |-> 0, term |-> 0, offset |-> 0])

\* The loop of _eval, round by round.
RECURSIVE InverseSeq_evalPanics(_, _)
InverseSeq_roundPanics(r, clock, miss) ==
    IF ~miss /\ InverseSeq_slotsPanic(r) THEN TRUE
    ELSE \E n \in {InverseSeq_evalRound(r, clock, miss)} :
             ~n.wait /\ InverseSeq_evalPanics(n.r, clock)

InverseSeq_evalPanics(r, clock) ==
    IF r.nActive # Len(r.terms) THEN FALSE
    ELSE IF InverseSeq_edgesPanic(r) THEN TRUE
    ELSE InverseSeq_roundPanics(r, clock, InverseSeq_windowMiss(r))

InverseSeq_EvalPanics(r, clock) ==
    ~evalStale(clock, r.clock) /\ InverseSeq_evalPanics([r EXCEPT !.clock = clock], clock)

\* miniGC reads r.terms[i] for every i < r.nActive (part_002:358-406,
\* part_003:364-387).
InverseSeq_miniGCPanics(r) ==
    Len(r.terms[1].asserts) > 0 /\ r.nActive > Len(r.terms)

\* After miniGC GarbageCollect reads r.terms[0].asserts[0] when nActive > 0
\* (part_002:283-285, part_003:299-301).
InverseSeq_gcMarkPanics(r2) == r2.nActive > 0 /\ Len(r2.terms[1].asserts) = 0

InverseSeq_gcPanics(r1) ==
    InverseSeq_miniGCPanics(r1) \/ InverseSeq_gcMarkPanics(InverseSeq_miniGC(r1))

InverseSeq_GarbageCollectPanics(r, clock) ==
    ~gcDeferred(r) /\ InverseSeq_gcPanics(InverseSeq_gcTerms(r, clock - r.gcRight))

\* Scan after the resets and the active slots: the slot after them and _eval.
InverseSeq_scanNextPanics(r3, e, z) ==
    IF r3.nActive > Len(r3.terms) THEN TRUE
    ELSE IF r3.nActive = Len(r3.terms) THEN InverseSeq_evalPanics(r3, e.ts)
    ELSE IF ~z.zeroMatch /\ ~makeRawMatch(r3.terms[r3.nActive + 1].matcher, e.line)
    THEN FALSE
    ELSE IF r3.impl = "map"
            /\ Len(r3.terms[r3.nActive + 1].asserts) + 1 <= r3.dupeMap[r3.nActive + 1]
    THEN FALSE
    ELSE InverseSeq_evalPanics(
             [r3 EXCEPT !.terms = appendAssert(r3.terms, r3.nActive + 1, e),
                        !.nActive = r3.nActive + 1],
             e.ts)

\* Scan after maybeGC: the zero-match switch, the resets, the active slots.
InverseSeq_scanPanics(r2, e, z) ==
    ~z.skip /\ InverseSeq_scanNextPanics(
                   appendActive(InverseSeq_runResets(r2, 1, e), e), e, z)

InverseSeq_scanZeroPanics(r2, e) ==
    InverseSeq_scanPanics(r2, e,
        IF r2.impl = "mask" THEN InvSeqMask_zeroMatch(r2, e)
        ELSE InvSeqMap_zeroMatch(r2, e))

InverseSeq_ScanPanics(r, e) ==
    /\ ~outOfOrder(e, r.clock)
    /\ \/ e.ts >= r.gcMark /\ InverseSeq_GarbageCollectPanics(r, e.ts)
       \/ InverseSeq_scanZeroPanics(
              InverseSeq_maybeGC([r EXCEPT !.clock = e.ts], e.ts), e)

(* ------------------- InverseSeq: the rounds of _eval ------------------- *)

\* The matcher Scan hands to _eval, after the resets, the active slots and the
\* slot after them (part_002:153-178, part_003:154-189); empty when Scan returns
\* before.  gcMark plays no part in _eval and is left as it is.
InverseSeq_scanFrame(r3, e, z) ==
    IF r3.nActive = Len(r3.terms) THEN {r3}
    ELSE IF ~z.zeroMatch /\ ~makeRawMatch(r3.terms[r3.nActive + 1].matcher, e.line)
    THEN {}
    ELSE IF r3.impl = "map"
            /\ Len(r3.terms[r3.nActive + 1].asserts) + 1 <= r3.dupeMap[r3.nActive + 1]
    THEN {}
    ELSE IF r3.nActive + 1 < Len(r3.terms) THEN {}
    ELSE {[r3 EXCEPT !.terms = appendAssert(r3.terms, r3.nActive + 1, e),
                     !.nActive = r3.nActive + 1]}

InverseSeq_ScanFrame(r, e) ==
    IF outOfOrder(e, r.clock) THEN {}
    ELSE LET r2 == InverseSeq_maybeGC([r EXCEPT !.clock = e.ts], e.ts)
             z  == IF r2.impl = "mask" THEN InvSeqMask_zeroMatch(r2, e)
                   ELSE InvSeqMap_zeroMatch(r2, e)
         IN  IF z.skip THEN {}
             ELSE InverseSeq_scanFrame(
                      appendActive(InverseSeq_runResets(r2, 1, e), e), e, z)

\* The matcher at the head of every round of the loop of _eval.
RECURSIVE InverseSeq_evalRounds(_, _)
InverseSeq_evalRounds(r, clock) ==
    IF r.nActive # Len(r.terms) THEN {}
    ELSE {r} \cup
         UNION {IF n.wait THEN {} ELSE InverseSeq_evalRounds(n.r, clock) :
                   n \in {InverseSeq_evalRound(r, clock, InverseSeq_windowMiss(r))}}

\* The assert a round drops because a reset lies in the window of the frame:
\* the slot and the position in it; term 0: the round drops nothing for a reset.
InverseSeq_resetDrop(r, clock) ==
    IF InverseSeq_windowMiss(r) \/ Len(r.resets) = 0 THEN [term |-> 0, offset |-> 0]
    ELSE IF r.impl = "mask"
    THEN LET chk == InvSeqMask_checkReset(r, clock)
         IN  IF chk.anchor # 255 THEN [term |-> chk.anchor + 1, offset |-> 0]
             ELSE [term |-> 0, offset |-> 0]
    ELSE LET a == InvSeqMap_checkReset(r, clock)
         IN  [term |-> a.term, offset |-> a.offset]

(* ------------------------------- system -------------------------------- *)

AllAsserts(terms) == UNION {Ids(terms[i].asserts) : i \in DOMAIN terms}

\* A scanned entry takes the next identity when it is buffered or emitted.
Retained(terms, h, id) == id \in AllAsserts(terms) \cup Ids(h.Logs)

\* emitted: the buffered entries that an earlier hit has already returned
\* (an entry that is no longer buffered can never be returned again).
EmittedAfter(em, h, terms) == (em \cup Ids(h.Logs)) \cap AllAsserts(terms)

\* The value of the struct variables of the matchers that are not under test.
Unused == <<>>

\* No constructor or function call is under observation.
NoCall == [fn |-> "none"]

InitCommon ==
    /\ call = NoCall
    /\ hits = NoHits
    /\ op = [kind |-> "New", late |-> FALSE]
    /\ nextId = 1
    /\ emitted = {}
    /\ seen = <<>>
    /\ invHits = NoHits
    /\ offered = <<>>
    /\ twin = Unused

(* --------------------------- MatchSeq: system -------------------------- *)

\* The lines of the input stream of a sequence matcher.
SeqLines == {"a", "b", "n"}

SeqConfigs ==
    { [window |-> 1, terms |-> <<"a", "b">>],
      [window |-> 1, terms |-> <<"a", "a">>],
      [window |-> 1, terms |-> <<"a", "b", "b">>],
      [window |-> 1, terms |-> <<"a", "a", "b">>],
      [window |-> 1, terms |-> <<"a", "b", "b", "a">>] }

InitSeq ==
    /\ which = "MatchSeq"
    /\ \E c \in SeqConfigs : seq = NewMatchSeq(c.window, c.terms)
    /\ set = Unused
    /\ inv = Unused
    /\ InitCommon

SeqScan ==
    /\ which = "MatchSeq"
    /\ \E ts \in Times, line \in SeqLines :
        \E res \in {MatchSeq_Scan(seq, [ts |-> ts, line |-> line, id |-> nextId])} :
        LET kept == Retained(res.r.terms, res.hits, nextId)
        IN  /\ kept => nextId <= MaxEntries
            /\ nextId' = IF kept THEN nextId + 1 ELSE nextId
            /\ seq' = res.r
            /\ hits' = res.hits
            /\ op' = [kind |-> "Scan", late |-> ts < seq.clock]
            /\ emitted' = EmittedAfter(emitted, res.hits, res.r.terms)
    /\ UNCHANGED <<which, twin, call, offered, invHits, set, inv, seen>>

SeqEval ==
    /\ which = "MatchSeq"
    /\ \E clock \in Times :
        \E res \in {MatchSeq_Eval(seq, clock)} :
            /\ seq' = res.r
            /\ hits' = res.hits
            /\ op' = [kind |-> "Eval", late |-> clock <= seq.clock]
            /\ emitted' = EmittedAfter(emitted, res.hits, res.r.terms)
    /\ UNCHANGED <<which, twin, call, offered, invHits, set, inv, nextId, seen>>

SeqGarbageCollect ==
    /\ which = "MatchSeq"
    /\ \E clock \in Times :
        /\ seq' = MatchSeq_GarbageCollect(seq, clock)
        /\ hits' = NoHits
        /\ op' = [kind |-> "GarbageCollect", late |-> FALSE]
        /\ emitted' = EmittedAfter(emitted, NoHits, seq'.terms)
    /\ UNCHANGED <<which, twin, call, offered, invHits, set, inv, nextId, seen>>

NextSeq == SeqScan \/ SeqEval \/ SeqGarbageCollect

SpecSeq == InitSeq /\ [][NextSeq]_vars

(* --------------------------- MatchSet: system -------------------------- *)

SetLines == {"a", "b", "ab", "n"}

SetConfigs ==
    { [window |-> 1, terms |-> <<"a", "b">>],
      [window |-> 1, terms |-> <<"a", "b", "a">>],
      [window |-> 2, terms |-> <<"a", "a">>] }

InitSet ==
    /\ which = "MatchSet"
    /\ \E c \in SetConfigs : set = NewMatchSet(c.window, c.terms)
    /\ seq = Unused
    /\ inv = Unused
    /\ InitCommon

SetScan ==
    /\ which = "MatchSet"
    /\ \E ts \in Times, line \in SetLines :
        \E res \in {MatchSet_Scan(set, [ts |-> ts, line |-> line, id |-> nextId])} :
        LET kept == Retained(res.r.terms, res.hits, nextId)
        IN  /\ kept => nextId <= MaxEntries
            /\ nextId' = IF kept THEN nextId + 1 ELSE nextId
            /\ set' = res.r
            /\ hits' = res.hits
            /\ op' = [kind |-> "Scan", late |-> ts < set.clock]
            /\ emitted' = EmittedAfter(emitted, res.hits, res.r.terms)
    /\ UNCHANGED <<which, twin, call, offered, invHits, seq, inv, seen>>

SetEval ==
    /\ which = "MatchSet"
    /\ \E clock \in Times :
        \E res \in {MatchSet_Eval(set, clock)} :
            /\ set' = res.r
            /\ hits' = res.hits
            /\ op' = [kind |-> "Eval", late |-> clock <= set.clock]
            /\ emitted' = EmittedAfter(emitted, res.hits, res.r.terms)
    /\ UNCHANGED <<which, twin, call, offered, invHits, seq, inv, nextId, seen>>

SetGarbageCollect ==
    /\ which = "MatchSet"
    /\ \E clock \in Times :
        /\ set' = MatchSet_GarbageCollect(set, clock)
        /\ hits' = NoHits
        /\ op' = [kind |-> "GarbageCollect", late |-> FALSE]
        /\ emitted' = EmittedAfter(emitted, NoHits, set'.terms)
    /\ UNCHANGED <<which, twin, call, offered, invHits, seq, inv, nextId, seen>>

NextSet == SetScan \/ SetEval \/ SetGarbageCollect

SpecSet == InitSet /\ [][NextSet]_vars

(* -------------------------- InverseSeq: system ------------------------- *)

InvLines == {"a", "b", "r", "n"}

Relative(anchor, window, slide) ==
    [term |-> "r", window |-> window, slide |-> slide, anchor |-> anchor, absolute |-> FALSE]

Absolute(anchor, window, slide) ==
    [term |-> "r", window |-> window, slide |-> slide, anchor |-> anchor, absolute |-> TRUE]

InvConfigs ==
    { [window |-> 1, terms |-> <<"a", "b">>, resets |-> <<Relative(0, 0, 0)>>],
      [window |-> 1, terms |-> <<"a", "b">>, resets |-> <<Absolute(1, 1, 0)>>],
      [window |-> 1, terms |-> <<"a">>,      resets |-> <<Absolute(0, 1, -1)>>],
      [window |-> 1, terms |-> <<"a", "a">>, resets |-> <<Relative(0, 0, 0)>>] }

NewInverseSeq(impl, window, seqTerms, resetTerms) ==
    IF impl = "mask" THEN NewInverseSeqMask(window, seqTerms, resetTerms)
    ELSE NewInverseSeqMap(window, seqTerms, resetTerms)

InitInv ==
    /\ which = "InverseSeq"
    /\ \E c \in InvConfigs, impl \in {"mask", "map"} :
           inv = NewInverseSeq(impl, c.window, c.terms, c.resets)
    /\ seq = Unused
    /\ set = Unused
    /\ hits = NoHits
    /\ op = [kind |-> "New", late |-> FALSE]
    /\ nextId = 1
    /\ emitted = {}
    /\ seen = [i \in DOMAIN inv.resets |-> {}]
    /\ invHits = NoHits
    /\ offered = <<>>
    /\ twin = Unused
    /\ call = NoCall

RECURSIVE ResetCount(_, _)
ResetCount(resets, i) ==
    IF i > Len(resets) THEN 0
    ELSE Len(resets[i].resets) + ResetCount(resets, i + 1)

SeenAfter(sn, r) == [i \in DOMAIN sn |-> sn[i] \cup Range(r.resets[i].resets)]

InvScan ==
    /\ which = "InverseSeq"
    /\ \E ts \in Times, line \in InvLines :
        \E res \in {InverseSeq_Scan(inv, [ts |-> ts, line |-> line, id |-> nextId])} :
        LET kept == Retained(res.r.terms, res.hits, nextId)
        IN  /\ kept => nextId <= MaxInvEntries
            /\ ResetCount(res.r.resets, 1) <= MaxResets
            /\ nextId' = IF kept THEN nextId + 1 ELSE nextId
            /\ inv' = res.r
            /\ hits' = res.hits
            /\ op' = [kind |-> "Scan", late |-> ts < inv.clock]
            /\ emitted' = EmittedAfter(emitted, res.hits, res.r.terms)
            /\ seen' = SeenAfter(seen, res.r)
    /\ UNCHANGED <<which, twin, call, offered, invHits, seq, set>>

InvEval ==
    /\ which = "InverseSeq"
    /\ \E clock \in Times :
        \E res \in {InverseSeq_Eval(inv, clock)} :
            /\ inv' = res.r
            /\ hits' = res.hits
            /\ op' = [kind |-> "Eval", late |-> clock <= inv.clock]
            /\ emitted' = EmittedAfter(emitted, res.hits, res.r.terms)
    /\ UNCHANGED <<which, twin, call, offered, invHits, seq, set, nextId, seen>>

\* The owner collects at a time the stream has reached: an accepted Scan is
\* never older than the clock of a collection before it.
InvGarbageCollect ==
    /\ which = "InverseSeq"
    /\ \E clock \in Times :
        /\ clock <= inv.clock
        /\ inv' = InverseSeq_GarbageCollect(inv, clock)
        /\ hits' = NoHits
        /\ op' = [kind |-> "GarbageCollect", late |-> FALSE]
        /\ emitted' = EmittedAfter(emitted, NoHits, inv'.terms)
    /\ UNCHANGED <<which, twin, call, offered, invHits, seq, set, nextId, seen>>

NextInv == InvScan \/ InvEval \/ InvGarbageCollect

SpecInv == InitInv /\ [][NextInv]_vars

(* --------------- MatchSeq and InverseSeq side by side ------------------ *)

EqConfigs ==
    { [window |-> 1, terms |-> <<"a", "b">>],
      [window |-> 1, terms |-> <<"a", "a">>],
      [window |-> 1, terms |-> <<"a", "b", "b">>] }

InitEq ==
    /\ which = "Both"
    /\ \E c \in EqConfigs, impl \in {"mask", "map"} :
           /\ seq = NewMatchSeq(c.window, c.terms)
           /\ inv = NewInverseSeq(impl, c.window, c.terms, <<>>)
    /\ set = Unused
    /\ InitCommon

\* The same entry goes to both matchers.
EqScan ==
    /\ which = "Both"
    /\ \E ts \in Times, line \in SeqLines :
        \E rs \in {MatchSeq_Scan(seq, [ts |-> ts, line |-> line, id |-> nextId])},
           ri \in {InverseSeq_Scan(inv, [ts |-> ts, line |-> line, id |-> nextId])} :
        LET kept == Retained(rs.r.terms, rs.hits, nextId)
                        \/ Retained(ri.r.terms, ri.hits, nextId)
        IN  /\ kept => nextId <= MaxInvEntries
            /\ nextId' = IF kept THEN nextId + 1 ELSE nextId
            /\ seq' = rs.r
            /\ inv' = ri.r
            /\ hits' = rs.hits
            /\ invHits' = ri.hits
            /\ op' = [kind |-> "Scan", late |-> ts < seq.clock]
    /\ UNCHANGED <<which, twin, call, offered, set, emitted, seen>>

NextEq == EqScan

SpecEq == InitEq /\ [][NextEq]_vars

(* ------------------------- every matcher ------------------------------- *)

InitAll == InitSeq \/ InitSet \/ InitInv

NextAll == NextSeq \/ NextSet \/ NextInv

SpecAll == InitAll /\ [][NextAll]_vars

(* ------------- every matcher, collections at any clock ----------------- *)

\* GarbageCollect of InverseSeq with any clock, ahead of the stream or not.
InvGarbageCollectAny ==
    /\ which = "InverseSeq"
    /\ \E clock \in Times :
        /\ inv' = InverseSeq_GarbageCollect(inv, clock)
        /\ hits' = NoHits
        /\ op' = [kind |-> "GarbageCollect", late |-> clock <= inv.clock]
        /\ emitted' = EmittedAfter(emitted, NoHits, inv'.terms)
    /\ UNCHANGED <<which, twin, call, offered, invHits, seq, set, nextId, seen>>

\* More patterns with duplicate terms: a reset anchored behind a run of dupes,
\* on the first of a run, and inside a run (which the dupe-map variant rejects).
AnyConfigs ==
    InvConfigs \cup
    { [window |-> 1, terms |-> <<"a", "b", "b">>, resets |-> <<Relative(1, 0, 0)>>],
      [window |-> 1, terms |-> <<"a", "a", "b">>, resets |-> <<Absolute(2, 1, 0)>>],
      [window |-> 1, terms |-> <<"a", "a">>,      resets |-> <<Relative(1, 0, 0)>>],
      [window |-> 1, terms |-> <<"a", "a", "b">>, resets |-> <<Relative(0, 0, 0)>>] }

NewInverseSeq_err(impl, seqTerms, resetTerms) ==
    IF impl = "mask" THEN NewInverseSeqMask_err(seqTerms, resetTerms)
    ELSE NewInverseSeqMap_err(seqTerms, resetTerms)

\* Every matcher a constructor call returns without an error.
InitInvAny ==
    /\ which = "InverseSeq"
    /\ \E c \in AnyConfigs, impl \in {"mask", "map"} :
           /\ NewInverseSeq_err(impl, c.terms, c.resets) = "nil"
           /\ inv = NewInverseSeq(impl, c.window, c.terms, c.resets)
    /\ seq = Unused
    /\ set = Unused
    /\ hits = NoHits
    /\ op = [kind |-> "New", late |-> FALSE]
    /\ nextId = 1
    /\ emitted = {}
    /\ seen = [i \in DOMAIN inv.resets |-> {}]
    /\ invHits = NoHits
    /\ offered = <<>>
    /\ twin = Unused
    /\ call = NoCall

InitAny == InitSeq \/ InitSet \/ InitInvAny

NextAny == NextSeq \/ NextSet \/ InvScan \/ InvEval \/ InvGarbageCollectAny

SpecAny == InitAny /\ [][NextAny]_vars

(* ------------- a reset anchored on a duplicated term ------------------- *)

\* ResetDupesWithAnchorFire / ResetDupesWithAnchorMiss of inverse_seq_test.go:
\* window 5, terms [alpha, alpha, alpha], a relative reset with anchor 2.
InitAnchor ==
    /\ which = "InverseSeq"
    /\ inv = NewInverseSeq("mask", 5, <<"a", "a", "a">>, <<Relative(2, 0, 0)>>)
    /\ seq = Unused
    /\ set = Unused
    /\ hits = NoHits
    /\ op = [kind |-> "New", late |-> FALSE]
    /\ nextId = 1
    /\ emitted = {}
    /\ seen = [i \in DOMAIN inv.resets |-> {}]
    /\ invHits = NoHits
    /\ offered = <<>>
    /\ twin = Unused
    /\ call = NoCall

\* The stream: alpha at 1, 2 and 3, then any line at strictly increasing
\* timestamps up to MaxAnchorTime.
AnchorScan ==
    /\ which = "InverseSeq"
    /\ \E ts \in (inv.clock + 1)..MaxAnchorTime, line \in {"a", "r", "n"} :
        \E res \in {InverseSeq_Scan(inv, [ts |-> ts, line |-> line, id |-> nextId])} :
        LET kept == Retained(res.r.terms, res.hits, nextId)
        IN  /\ nextId <= 3 => (line = "a" /\ ts = nextId)
            /\ kept => nextId <= MaxAnchorEntries
            /\ ResetCount(res.r.resets, 1) <= MaxAnchorResets
            /\ nextId' = IF kept THEN nextId + 1 ELSE nextId
            /\ inv' = res.r
            /\ hits' = res.hits
            /\ op' = [kind |-> "Scan", late |-> FALSE]
            /\ emitted' = EmittedAfter(emitted, res.hits, res.r.terms)
            /\ seen' = SeenAfter(seen, res.r)
    /\ UNCHANGED <<which, twin, call, offered, invHits, seq, set>>

NextAnchor == AnchorScan

SpecAnchor == InitAnchor /\ [][NextAnchor]_vars

(* ------------- InverseSeq: every reset line on record ------------------ *)

\* The reset lines of a stream, as the caller sees them: an accepted Scan of a
\* line that matches the term of reset i adds its timestamp to offered[i],
\* whether or not Scan records it.
OfferedAfter(of, r, e) ==
    [i \in DOMAIN of |->
        IF makeRawMatch(r.resets[i].matcher, e.line) /\ ~outOfOrder(e, r.clock)
        THEN of[i] \cup {e.ts} ELSE of[i]]

InitZero ==
    /\ which = "InverseSeq"
    /\ \E c \in InvConfigs, impl \in {"mask", "map"} :
           inv = NewInverseSeq(impl, c.window, c.terms, c.resets)
    /\ seq = Unused
    /\ set = Unused
    /\ hits = NoHits
    /\ op = [kind |-> "New", late |-> FALSE]
    /\ nextId = 1
    /\ emitted = {}
    /\ seen = [i \in DOMAIN inv.resets |-> {}]
    /\ invHits = NoHits
    /\ call = NoCall
    /\ offered = [i \in DOMAIN inv.resets |-> {}]
    /\ twin = Unused

ZeroScan ==
    /\ which = "InverseSeq"
    /\ \E ts \in Times, line \in InvLines :
        \E res \in {InverseSeq_Scan(inv, [ts |-> ts, line |-> line, id |-> nextId])} :
        LET kept == Retained(res.r.terms, res.hits, nextId)
        IN  /\ kept => nextId <= MaxInvEntries
            /\ ResetCount(res.r.resets, 1) <= MaxResets
            /\ nextId' = IF kept THEN nextId + 1 ELSE nextId
            /\ inv' = res.r
            /\ hits' = res.hits
            /\ op' = [kind |-> "Scan", late |-> ts < inv.clock]
            /\ emitted' = EmittedAfter(emitted, res.hits, res.r.terms)
            /\ seen' = SeenAfter(seen, res.r)
            /\ offered' = OfferedAfter(offered, inv, [ts |-> ts, line |-> line, id |-> nextId])
    /\ UNCHANGED <<which, twin, call, invHits, seq, set>>

NextZero == ZeroScan \/ InvEval

SpecZero == InitZero /\ [][NextZero]_vars

(* ---------------------------- constructors ----------------------------- *)

\* makeTermsN(n) of inverse_test.go: n terms, no two alike.
makeTermsN(n) == [i \in 1..n |-> ToString(i - 1)]

\* makeDupesN(n) of inverse_test.go: the same term n times.
makeDupesN(n) == [i \in 1..n |-> "dupe"]

\* Term lists around the limit of maxTerms slots: n distinct terms followed by
\* k copies of one more term.
LongTermLists ==
    {makeTermsN(n) \o makeDupesN(k) :
        n \in {0, maxTerms - 1, maxTerms, maxTerms + 1},
        k \in {0, 1, 2, maxTerms, 2 * maxTerms}}

\* Short term lists with every arrangement of runs of equal terms.
ShortTermLists == ListsUpTo({"a", "b"}, MaxNewTerms)

\* The reset lists of a constructor call: none, one or two resets with any
\* anchor up to MaxNewAnchor.
NewResetLists ==
    {<<>>} \cup {<<Relative(a, 0, 0)>> : a \in 0..MaxNewAnchor}
           \cup {<<Relative(a, 0, 0), Relative(b, 0, 0)>> : a, b \in 0..MaxNewAnchor}

NewArgs ==
    {[fn |-> fn, seqTerms |-> t, resetTerms |-> <<>>] :
        fn \in {"NewMatchSeq", "NewMatchSet", "NewInverseSeq/mask", "NewInverseSeq/map"},
        t \in LongTermLists \cup ShortTermLists}
    \cup
    {[fn |-> fn, seqTerms |-> t, resetTerms |-> rs] :
        fn \in {"NewInverseSeq/mask", "NewInverseSeq/map"},
        t \in ShortTermLists, rs \in NewResetLists}

\* The error a constructor returns ("nil": none).
New_err(fn, seqTerms, resetTerms) ==
    CASE fn = "NewMatchSeq"        -> buildSeqTerms(seqTerms).err
      [] fn = "NewMatchSet"        -> buildSetTerms(seqTerms).err
      [] fn = "NewInverseSeq/mask" -> NewInverseSeq_err("mask", seqTerms, resetTerms)
      [] fn = "NewInverseSeq/map"  -> NewInverseSeq_err("map", seqTerms, resetTerms)

\* Before the call: the arguments are chosen, no matcher exists.
InitNew ==
    /\ which = "none"
    /\ \E a \in NewArgs :
           call = [fn |-> a.fn, seqTerms |-> a.seqTerms, resetTerms |-> a.resetTerms,
                   done |-> FALSE, err |-> "nil"]
    /\ seq = Unused
    /\ set = Unused
    /\ inv = Unused
    /\ hits = NoHits
    /\ op = [kind |-> "none", late |-> FALSE]
    /\ nextId = 1
    /\ emitted = {}
    /\ seen = <<>>
    /\ invHits = NoHits
    /\ offered = <<>>
    /\ twin = Unused

\* The constructor call: the matcher it returns, or nil and the error.
NewCall ==
    /\ ~call.done
    /\ \E err \in {New_err(call.fn, call.seqTerms, call.resetTerms)} :
        /\ call' = [call EXCEPT !.done = TRUE, !.err = err]
        /\ which' = IF err # "nil" THEN "none"
                    ELSE CASE call.fn = "NewMatchSeq" -> "MatchSeq"
                           [] call.fn = "NewMatchSet" -> "MatchSet"
                           [] OTHER                   -> "InverseSeq"
        /\ seq' = IF err = "nil" /\ call.fn = "NewMatchSeq"
                  THEN NewMatchSeq(10, call.seqTerms) ELSE Unused
        /\ set' = IF err = "nil" /\ call.fn = "NewMatchSet"
                  THEN NewMatchSet(10, call.seqTerms) ELSE Unused
        /\ inv' = IF err # "nil" THEN Unused
                  ELSE CASE call.fn = "NewInverseSeq/mask" ->
                                NewInverseSeq("mask", 10, call.seqTerms, call.resetTerms)
                         [] call.fn = "NewInverseSeq/map" ->
                                NewInverseSeq("map", 10, call.seqTerms, call.resetTerms)
                         [] OTHER -> Unused
        /\ op' = [kind |-> "New", late |-> FALSE]
    /\ UNCHANGED <<hits, nextId, emitted, seen, invHits, offered, twin>>

NextNew == NewCall

SpecNew == InitNew /\ [][NextNew]_vars

(* ------------------------ the reset window ----------------------------- *)

\* The anchors of a frame: the clock of one assert per term, in slot order.
AnchorLists ==
    {[k \in DOMAIN l |-> [clock |-> l[k], term |-> k, offset |-> 0]] :
        l \in ListsUpTo(Times, MaxAnchors)}

\* The resets calcWindowA is called on: windows and slides of either sign.
CalcResets ==
    {[matcher |-> "r", resets |-> <<>>, window |-> w, slide |-> sl,
      anchor |-> a, absolute |-> abs] :
        w \in (-MaxWindow)..MaxWindow, sl \in (-MaxSlide)..MaxSlide,
        a \in 0..(MaxAnchors - 1), abs \in BOOLEAN}

\* Before the call: a reset and the anchors of a frame; the anchor of the reset
\* indexes the frame (NewInverseSeq refuses any other), or the frame is empty.
InitCalc ==
    /\ which = "none"
    /\ \E reset \in CalcResets, anchors \in AnchorLists :
           /\ Len(anchors) = 0 \/ reset.anchor < Len(anchors)
           /\ call = [fn |-> "calcWindowA", reset |-> reset, anchors |-> anchors,
                      done |-> FALSE, start |-> 0, stop |-> 0]
    /\ seq = Unused
    /\ set = Unused
    /\ inv = Unused
    /\ hits = NoHits
    /\ op = [kind |-> "none", late |-> FALSE]
    /\ nextId = 1
    /\ emitted = {}
    /\ seen = <<>>
    /\ invHits = NoHits
    /\ offered = <<>>
    /\ twin = Unused

\* r.calcWindowA(anchors).
CalcCall ==
    /\ call.fn = "calcWindowA"
    /\ ~call.done
    /\ \E w \in {calcWindowA(call.reset, call.anchors)} :
           call' = [call EXCEPT !.done = TRUE, !.start = w.start, !.stop = w.stop]
    /\ UNCHANGED <<which, seq, set, inv, hits, op, nextId, emitted, seen, invHits, offered, twin>>

NextCalc == CalcCall

SpecCalc == InitCalc /\ [][NextCalc]_vars

(* ------------------------------- claims -------------------------------- *)

\* The k-th group of a Hits value: Cnt groups of equal length, back to back.
GroupLen(h) == Len(h.Logs) \div h.Cnt

HitGroup(h, k) == SubSeq(h.Logs, (k - 1) * GroupLen(h) + 1, k * GroupLen(h))

\* The interval of a reset over the entries of a hit (or of a held frame).
GroupWindow(reset, g) ==
    LET start == g[reset.anchor + 1].ts + reset.slide
        width == reset.window +
                 (IF reset.absolute THEN 0 ELSE g[Len(g)].ts - g[1].ts)
    IN  [start |-> start, stop |-> start + Max2(width, 0)]

\* The frame InverseSeq holds when every slot is active.
HeldFrame(r) ==
    Concat([i \in DOMAIN r.terms |->
               Take(r.terms[i].asserts,
                    IF r.impl = "mask" THEN 1 ELSE 1 + r.dupeMap[i])])

C2_HitOnlyAfterStop ==
    (which = "InverseSeq" /\ hits.Cnt > 0) =>
        \A k \in 1..hits.Cnt, i \in DOMAIN inv.resets :
            GroupWindow(inv.resets[i], HitGroup(hits, k)).stop < inv.clock

\* A Scan has completed the frame and holds it back: some stop is not yet past.
C2_Witness ==
    /\ which = "InverseSeq"
    /\ op.kind = "Scan"
    /\ hits.Cnt = 0
    /\ inv.nActive = Len(inv.terms)
    /\ \E i \in DOMAIN inv.resets :
           GroupWindow(inv.resets[i], HeldFrame(inv)).stop >= inv.clock

\* The held frame lies within the window and no recorded reset is inside any
\* of its reset intervals.
FrameClean(r, sn) ==
    LET g == HeldFrame(r)
    IN  /\ g[Len(g)].ts - g[1].ts <= r.window
        /\ \A i \in DOMAIN r.resets :
               LET w == GroupWindow(r.resets[i], g)
               IN  \A ts \in sn[i] : ~(w.start <= ts /\ ts <= w.stop)

\* C3: a held frame that is within the window and has no reset inside any
\* reset interval is returned by the first accepted Scan (of any line) or Eval
\* whose clock exceeds the stop of every reset, however far the clock jumps.
C3_DeferredFrameEmitted ==
    [][ ( /\ which = "InverseSeq"
          /\ inv.nActive = Len(inv.terms)
          /\ Len(inv.resets) > 0
          /\ FrameClean(inv, seen)
          /\ op'.kind \in {"Scan", "Eval"}
          /\ op'.kind = "Scan" => ~op'.late
          /\ \A i \in DOMAIN inv.resets :
                 GroupWindow(inv.resets[i], HeldFrame(inv)).stop < inv'.clock )
        => ( hits'.Cnt >= 1 /\ HitGroup(hits', 1) = HeldFrame(inv) ) ]_vars

\* An Eval returns a hit: the frame was held back by an earlier Scan.
C3_Witness ==
    /\ which = "InverseSeq"
    /\ op.kind = "Eval"
    /\ hits.Cnt > 0
    /\ Len(inv.resets) > 0

WithinWindow(g, window) == \A j, k \in DOMAIN g : g[j].ts - g[k].ts <= window

\* C4: every hit of MatchSeq, patterns with duplicate terms included, has
\* max(timestamp) - min(timestamp) <= window.
C4_SeqHitWithinWindow ==
    (which = "MatchSeq" /\ hits.Cnt > 0) =>
        \A k \in 1..hits.Cnt : WithinWindow(HitGroup(hits, k), seq.window)

\* C5: every hit of MatchSet has max(timestamp) - min(timestamp) <= window.
C5_SetHitWithinWindow ==
    (which = "MatchSet" /\ hits.Cnt > 0) =>
        \A k \in 1..hits.Cnt : WithinWindow(HitGroup(hits, k), set.window)

\* A hit of MatchSet whose entries are exactly one window apart.
C5_Witness ==
    /\ which = "MatchSet"
    /\ hits.Cnt > 0
    /\ \E j, k \in DOMAIN hits.Logs : hits.Logs[j].ts - hits.Logs[k].ts = set.window

\* The pattern a sequence matcher was built from, one term per entry of a hit.
SeqPattern(terms, dupeMap) ==
    Concat([i \in DOMAIN terms |-> [j \in 1..(1 + dupeMap[i]) |-> terms[i].matcher]])

MatchesPattern(g, pattern) ==
    /\ Len(g) = Len(pattern)
    /\ \A k \in DOMAIN g : makeRawMatch(pattern[k], g[k].line)

\* C6: the entries of a hit of MatchSeq are non-decreasing in timestamp and the
\* k-th entry matches the k-th term of the pattern.
C6_SeqHitOrdered ==
    (which = "MatchSeq" /\ hits.Cnt > 0) =>
        \A k \in 1..hits.Cnt :
            /\ NonDecreasing(Stamps(HitGroup(hits, k)))
            /\ MatchesPattern(HitGroup(hits, k), SeqPattern(seq.terms, seq.dupeMap))

\* The first position of slot i in the logs of a hit of MatchSet.
SetOffset(r, i) == SumSeq([j \in 1..(i - 1) |-> 1 + r.dupeMap[j]])

SetSegment(r, h, i) ==
    SubSeq(h.Logs, SetOffset(r, i) + 1, SetOffset(r, i) + 1 + r.dupeMap[i])

IsSuffix(s, t) == \E d \in 0..Len(t) : s = SubSeq(t, d + 1, Len(t))

\* C7: a hit of MatchSet holds, for each distinct term i, exactly
\* 1 + dupeMap[i] entries matching it, the earliest the slot retains; they
\* leave the slot and every later assert stays buffered.
C7_SetDupeAccounting ==
    [][ (which = "MatchSet" /\ hits'.Cnt > 0) =>
          /\ hits'.Cnt = 1
          /\ Len(hits'.Logs) = SetOffset(set, Len(set.terms) + 1)
          /\ \A i \in DOMAIN set.terms :
                LET seg  == SetSegment(set, hits', i)
                    all  == seg \o set'.terms[i].asserts
                    old  == SelectSeq(all, LAMBDA x : x.id # nextId)
                IN  /\ \A k \in DOMAIN seg : makeRawMatch(set.terms[i].matcher, seg[k].line)
                    /\ IsSuffix(old, set.terms[i].asserts)
                    /\ all = old \/ (all = Append(old, all[Len(all)])) ]_vars

\* A hit took the two earliest asserts of a duplicated term and left a later one.
C7_Witness ==
    /\ which = "MatchSet"
    /\ hits.Cnt > 0
    /\ \E i \in DOMAIN set.terms :
           set.dupeMap[i] > 0 /\ Len(set.terms[i].asserts) > 0

\* C8: an entry returned in a hit of MatchSeq is never returned again.
C8_SeqNoReuse ==
    [][ which = "MatchSeq" => Ids(hits'.Logs) \cap emitted = {} ]_vars

\* C9: with no resets InverseSeq returns at every Scan the hits MatchSeq
\* returns, patterns with duplicate terms included.
C9_InverseSeqAsMatchSeq == which = "Both" => invHits = hits

\* C10: for every matcher a Scan of an entry older than the clock returns no
\* hit and changes nothing of the matcher.
C10_OutOfOrderIgnored ==
    [][ (op'.kind = "Scan" /\ op'.late) =>
            (seq' = seq /\ set' = set /\ inv' = inv /\ hits' = NoHits) ]_vars

\* An out-of-order Scan on a matcher that buffers entries.
C10_Witness ==
    /\ op.kind = "Scan"
    /\ op.late
    /\ \/ which = "MatchSeq" /\ seq.nActive > 0
       \/ which = "MatchSet" /\ \E i \in DOMAIN set.terms : Len(set.terms[i].asserts) > 0
       \/ which = "InverseSeq" /\ inv.nActive > 0

\* C11: an Eval of InverseSeq with clock <= the current clock returns no hits
\* and changes nothing of the matcher.
C11_StaleEvalNoop ==
    [][ (which = "InverseSeq" /\ op'.kind = "Eval" /\ op'.late) =>
            (inv' = inv /\ hits' = NoHits) ]_vars

\* An Eval at a clock the matcher has already reached, on a held full frame.
C11_Witness ==
    /\ which = "InverseSeq"
    /\ op.kind = "Eval"
    /\ op.late
    /\ inv.nActive = Len(inv.terms)
    /\ inv.clock > 0

\* What GarbageCollect(clock) must leave: no assert older than clock - gcRight,
\* no reset observation older than clock - gcRight - gcLeft.
Collected(r, clock) ==
    /\ \A i \in DOMAIN r.terms : \A k \in DOMAIN r.terms[i].asserts :
           r.terms[i].asserts[k].ts >= clock - r.gcRight
    /\ \A i \in DOMAIN r.resets : \A k \in DOMAIN r.resets[i].resets :
           r.resets[i].resets[k] >= clock - r.gcRight - r.gcLeft

\* C12: in every reachable state of InverseSeq, GarbageCollect(clock) leaves
\* no assert with timestamp < clock - gcRight and no reset observation with
\* timestamp < clock - gcRight - gcLeft, for every clock.
C12_GarbageCollectBound ==
    which = "InverseSeq" =>
        \A clock \in Times :
            Collected(InverseSeq_GarbageCollect(inv, clock), clock)

\* An assert or a reset observation the clock has left behind by more than
\* gcLeft + gcRight.
Stale(r) ==
    \/ \E i \in DOMAIN r.terms : \E k \in DOMAIN r.terms[i].asserts :
           r.terms[i].asserts[k].ts + r.gcLeft + r.gcRight < r.clock
    \/ \E i \in DOMAIN r.resets : \E k \in DOMAIN r.resets[i].resets :
           r.resets[i].resets[k] + r.gcLeft + r.gcRight < r.clock

\* C13: once an accepted Scan of InverseSeq has moved the clock beyond
\* timestamp + gcLeft + gcRight of a buffered assert or reset observation,
\* the matcher no longer retains it, whatever the scanned line was.
C13_LazyGCDiscards ==
    (which = "InverseSeq" /\ op.kind = "Scan" /\ ~op.late) => ~Stale(inv)

\* C14: whatever Scan, Eval and GarbageCollect calls a matcher has taken, with
\* any entries and any clocks, no next call reaches an index expression that
\* is out of range.
C14_NoPanic ==
    /\ which = "MatchSeq" =>
           /\ \A ts \in Times, line \in SeqLines :
                  ~MatchSeq_ScanPanics(seq, [ts |-> ts, line |-> line, id |-> nextId])
           /\ \A clock \in Times : ~MatchSeq_GarbageCollectPanics(seq, clock)
    /\ which = "MatchSet" =>
           \A ts \in Times, line \in SetLines :
               ~MatchSet_ScanPanics(set, [ts |-> ts, line |-> line, id |-> nextId])
    /\ which = "InverseSeq" =>
           /\ \A ts \in Times, line \in InvLines :
                  ~InverseSeq_ScanPanics(inv, [ts |-> ts, line |-> line, id |-> nextId])
           /\ \A clock \in Times :
                  /\ ~InverseSeq_EvalPanics(inv, clock)
                  /\ ~InverseSeq_GarbageCollectPanics(inv, clock)

\* A collection at a clock ahead of the stream has emptied the first slot of
\* an InverseSeq that had buffered entries, and the clock has not moved since.
C14_Witness ==
    /\ which = "InverseSeq"
    /\ op.kind = "GarbageCollect"
    /\ ~op.late
    /\ nextId > 1
    /\ Len(inv.terms[1].asserts) = 0

\* The asserts of a slot that are within the window of an entry at ts.
Alive(m, ts, window) == SelectSeq(m, LAMBDA x : ts - x.ts <= window)

\* C15: a Scan of MatchSeq never returns more than one hit; with terms [a, b]
\* and k >= 1 buffered "a" entries, a "b" entry within the window of one of
\* them returns exactly one hit: the earliest "a" within the window and the "b".
C15_SeqOverFire ==
    which = "MatchSeq" =>
        /\ hits.Cnt <= 1
        /\ (SeqPattern(seq.terms, seq.dupeMap) = <<"a", "b">> /\ seq.nActive = 1) =>
               \A ts \in Times :
                   (ts >= seq.clock /\ Alive(seq.terms[1].asserts, ts, seq.window) # <<>>) =>
                       MatchSeq_Scan(seq, [ts |-> ts, line |-> "b", id |-> nextId]).hits
                         = [Cnt |-> 1,
                            Logs |-> << Alive(seq.terms[1].asserts, ts, seq.window)[1],
                                        [ts |-> ts, line |-> "b", id |-> nextId] >>]

\* Terms [a, b]: a "b" has fired with the first of several "a" entries and
\* the later ones are still buffered.
C15_Witness ==
    /\ which = "MatchSeq"
    /\ SeqPattern(seq.terms, seq.dupeMap) = <<"a", "b">>
    /\ op.kind = "Scan"
    /\ hits.Cnt = 1
    /\ Len(seq.terms[1].asserts) >= 2

\* Slot i is hot at a Scan of (ts, line): the asserts of the slot within the
\* window, the scanned entry included if it matches, are 1 + dupeMap[i] or more.
HotAt(r, i, ts, line) ==
    Len(Alive(r.terms[i].asserts, ts, r.window))
      + (IF makeRawMatch(r.terms[i].matcher, line) THEN 1 ELSE 0) >= 1 + r.dupeMap[i]

\* C16: a Scan of MatchSet returns a hit exactly when every slot is hot at
\* that Scan, in whatever order the terms arrived; no call returns two hits.
C16_SetFiresWhenAllHot ==
    which = "MatchSet" =>
        /\ hits.Cnt <= 1
        /\ \A ts \in Times, line \in SetLines :
               ts >= set.clock =>
                   ( MatchSet_Scan(set, [ts |-> ts, line |-> line, id |-> nextId]).hits.Cnt = 1
                       <=> \A i \in DOMAIN set.terms : HotAt(set, i, ts, line) )

\* A hit whose first term arrived after its last term.
C16_Witness ==
    /\ which = "MatchSet"
    /\ op.kind = "Scan"
    /\ hits.Cnt = 1
    /\ hits.Logs[1].id > hits.Logs[Len(hits.Logs)].id

\* The matcher with its clock one tick back.
Earlier(r) == [r EXCEPT !.clock = r.clock - 1]

\* C17: an entry whose timestamp equals the clock is scanned as an entry ahead
\* of the clock is: for every matcher and every line, Scan at the clock
\* returns the hits and leaves the matcher that Scan of the same entry returns
\* and leaves when the clock is one tick earlier.
C17_EqualTimestampAccepted ==
    /\ which = "MatchSeq" =>
           \A line \in SeqLines :
               LET e == [ts |-> seq.clock, line |-> line, id |-> nextId]
               IN  MatchSeq_Scan(seq, e) = MatchSeq_Scan(Earlier(seq), e)
    /\ which = "MatchSet" =>
           \A line \in SetLines :
               LET e == [ts |-> set.clock, line |-> line, id |-> nextId]
               IN  MatchSet_Scan(set, e) = MatchSet_Scan(Earlier(set), e)
    /\ which = "InverseSeq" =>
           \A line \in InvLines :
               LET e == [ts |-> inv.clock, line |-> line, id |-> nextId]
               IN  InverseSeq_Scan(inv, e) = InverseSeq_Scan(Earlier(inv), e)

\* A hit of two or more entries that all carry the timestamp of the clock,
\* scanned after the clock had reached it.
C17_Witness ==
    /\ which = "MatchSeq"
    /\ op.kind = "Scan"
    /\ hits.Cnt = 1
    /\ seq.clock > 0
    /\ Cardinality(Ids(hits.Logs)) >= 2
    /\ \A k \in DOMAIN hits.Logs : hits.Logs[k].ts = seq.clock

\* The clock of the matcher under test.
Clock(sq, st, iv) ==
    IF which = "MatchSeq" THEN sq.clock
    ELSE IF which = "MatchSet" THEN st.clock
    ELSE iv.clock

\* The clock after Scan of an entry (ts, line).
ClockAfterScan(ts, line) ==
    LET e == [ts |-> ts, line |-> line, id |-> nextId]
    IN  IF which = "MatchSeq" THEN MatchSeq_Scan(seq, e).r.clock
        ELSE IF which = "MatchSet" THEN MatchSet_Scan(set, e).r.clock
        ELSE InverseSeq_Scan(inv, e).r.clock

\* C18: for every matcher, after Scan of an entry with timestamp >= clock the
\* clock is that timestamp, whatever the line; and no call (Scan, Eval,
\* GarbageCollect) ever decreases the clock.
C18_ClockMonotone ==
    /\ [](\A ts \in Times, line \in SeqLines \cup SetLines \cup InvLines :
              ts >= Clock(seq, set, inv) => ClockAfterScan(ts, line) = ts)
    /\ [][Clock(seq', set', inv') >= Clock(seq, set, inv)]_vars

\* An accepted Scan of a line that matches nothing has moved the clock.
C18_Witness ==
    /\ op.kind = "Scan"
    /\ ~op.late
    /\ Clock(seq, set, inv) > 0
    /\ nextId = 1

\* C19: Eval of MatchSeq and of MatchSet, at any clock, returns no hits and
\* leaves the matcher as it was, its clock included.
C19_EvalNoop ==
    [][ (which \in {"MatchSeq", "MatchSet"} /\ op'.kind = "Eval") =>
            (seq' = seq /\ set' = set /\ hits' = NoHits) ]_vars

\* An Eval ahead of the clock of a MatchSeq that holds entries.
C19_Witness ==
    /\ which = "MatchSeq"
    /\ op.kind = "Eval"
    /\ ~op.late
    /\ seq.nActive > 0

\* The frames of the scenario and the reset interval of each: the anchor 2 is
\* the third entry of the frame, the width is last - first.
AnchorFrames ==
    { [f |-> <<1, 2, 3>>, start |-> 3, stop |-> 5],
      [f |-> <<2, 3, 7>>, start |-> 7, stop |-> 12],
      [f |-> <<3, 7, 8>>, start |-> 8, stop |-> 13] }

\* C20: terms [a, a, a] with a relative reset of anchor 2.  A frame of the
\* scenario is returned only by a Scan whose clock is past the stop of its
\* interval and only if no reset was recorded inside the interval (a reset at
\* 5 cancels {1,2,3}); and the frame that is held with no reset inside its
\* interval is returned by the first Scan whose clock is past the stop
\* ({1,2,3} at the first clock > 5, {2,3,7} and {3,7,8} later, also after
\* {1,2,3} was cancelled).
C20_DupeAnchor ==
    /\ [](\A x \in AnchorFrames : \A k \in 1..hits.Cnt :
              Stamps(HitGroup(hits, k)) = x.f =>
                  (inv.clock > x.stop /\ seen[1] \cap (x.start..x.stop) = {}))
    /\ [][ \A x \in AnchorFrames :
              ( /\ inv.nActive = Len(inv.terms)
                /\ Stamps(HeldFrame(inv)) = x.f
                /\ seen[1] \cap (x.start..x.stop) = {}
                /\ inv'.clock > x.stop )
              => (hits'.Cnt >= 1 /\ Stamps(HitGroup(hits', 1)) = x.f) ]_vars

\* The end of ResetDupesWithAnchorMiss: a reset at 5 was recorded and the
\* frame {3,7,8} is returned.
C20_Witness ==
    /\ which = "InverseSeq"
    /\ 5 \in seen[1]
    /\ hits.Cnt = 1
    /\ Stamps(hits.Logs) = <<3, 7, 8>>

\* The anchor indexes, in the term list as supplied, an occurrence of a run of
\* equal terms that is not the first of its run.
InsideRun(seqTerms, anchor) ==
    /\ anchor > 0
    /\ anchor < Len(seqTerms)
    /\ seqTerms[anchor + 1] = seqTerms[anchor]

\* The term list is not empty and has at most maxTerms runs of equal terms.
RunsFit(seqTerms) ==
    /\ Len(seqTerms) > 0
    /\ Cardinality({k \in DOMAIN seqTerms : k = 1 \/ seqTerms[k] # seqTerms[k - 1]})
           <= maxTerms

\* The constructor of the InverseSeq without dupe-anchor support has returned.
MapCallDone == call.fn = "NewInverseSeq/map" /\ call.done

InvCallDone == call.fn \in {"NewInverseSeq/mask", "NewInverseSeq/map"} /\ call.done

\* C22: NewInverseSeq returns ErrTooManyTerms whenever more than maxTerms terms
\* are supplied, counted before equal neighbours are collapsed, and accepts
\* maxTerms terms.
C22_InverseSeqTermLimit ==
    InvCallDone =>
        /\ Len(call.seqTerms) > maxTerms => call.err = "ErrTooManyTerms"
        /\ (Len(call.seqTerms) = maxTerms /\ call.resetTerms = <<>>) => call.err = "nil"

\* The slots a pattern takes: MatchSeq has one per run of equal neighbours,
\* MatchSet one per distinct term.
SlotCount(fn, terms) ==
    IF fn = "NewMatchSet" THEN Cardinality(Range(terms))
    ELSE Cardinality({k \in DOMAIN terms : k = 1 \/ terms[k] # terms[k - 1]})

\* C23: NewMatchSet and NewMatchSeq apply the limit of maxTerms to the slot
\* count after collapsing: an empty list returns ErrNoTerms, a list of more than
\* maxTerms slots ErrTooManyTerms, any other list is accepted with one slot per
\* collapsed term; so maxTerms distinct terms and 2 * maxTerms equal terms are
\* accepted and maxTerms + 1 distinct terms are refused.
C23_CollapsedTermLimit ==
    (call.fn \in {"NewMatchSeq", "NewMatchSet"} /\ call.done) =>
        /\ call.err = IF Len(call.seqTerms) = 0 THEN "ErrNoTerms"
                      ELSE IF SlotCount(call.fn, call.seqTerms) > maxTerms
                           THEN "ErrTooManyTerms" ELSE "nil"
        /\ call.seqTerms = makeTermsN(maxTerms)     => call.err = "nil"
        /\ call.seqTerms = makeDupesN(2 * maxTerms) => call.err = "nil"
        /\ call.seqTerms = makeTermsN(maxTerms + 1) => call.err = "ErrTooManyTerms"
        /\ (call.err = "nil" /\ call.fn = "NewMatchSeq") =>
               Len(seq.terms) = SlotCount(call.fn, call.seqTerms)
        /\ (call.err = "nil" /\ call.fn = "NewMatchSet") =>
               Len(set.terms) = SlotCount(call.fn, call.seqTerms)

\* NewMatchSet has accepted 2 * maxTerms equal terms as one slot.
C23_Witness ==
    /\ call.fn = "NewMatchSet"
    /\ call.done
    /\ call.seqTerms = makeDupesN(2 * maxTerms)
    /\ call.err = "nil"
    /\ which = "MatchSet"
    /\ Len(set.terms) = 1
    /\ set.dupeMap[1] = 2 * maxTerms - 1

\* C24: for a non-empty anchor list calcWindowA returns
\* start = anchors[anchor].clock + slide and
\* stop = start + max(window + (absolute ? 0 : last clock - first clock), 0),
\* hence stop >= start, for windows of either sign.
C24_CalcWindowA ==
    (call.fn = "calcWindowA" /\ call.done /\ Len(call.anchors) > 0) =>
        LET r     == call.reset
            a     == call.anchors
            span  == IF r.absolute THEN 0 ELSE a[Len(a)].clock - a[1].clock
            width == IF r.window + span > 0 THEN r.window + span ELSE 0
        IN  /\ call.start = a[r.anchor + 1].clock + r.slide
            /\ call.stop = call.start + width
            /\ call.stop >= call.start

\* A relative reset whose negative window outweighs the span of the frame:
\* the interval is the single point start.
C24_Witness ==
    /\ call.fn = "calcWindowA"
    /\ call.done
    /\ ~call.reset.absolute
    /\ call.reset.window = -3
    /\ call.reset.anchor = 1
    /\ [k \in DOMAIN call.anchors |-> call.anchors[k].clock] = <<0, 1, 2>>
    /\ call.stop = call.start
    /\ call.start = 1 + call.reset.slide

\* C25: the zero-match optimisation of InverseSeq.Scan discards no reset entry
\* whose timestamp lies inside the reset interval of a hit returned later: no
\* returned hit has the timestamp of an accepted reset line, recorded by Scan or
\* not, inside one of its reset intervals.
C25_ZeroMatchKeepsResets ==
    (which = "InverseSeq" /\ hits.Cnt > 0) =>
        \A k \in 1..hits.Cnt, i \in DOMAIN inv.resets :
            LET w == GroupWindow(inv.resets[i], HitGroup(hits, k))
            IN  \A ts \in offered[i] : ~(w.start <= ts /\ ts <= w.stop)

\* C26: every hit InverseSeq returns has all of its entries inside a closed
\* interval of length window (so the timestamp of its last entry minus that of
\* its first is at most window), for patterns with and without duplicate terms.
C26_InverseHitWithinWindow ==
    (which = "InverseSeq" /\ hits.Cnt > 0) =>
        \A k \in 1..hits.Cnt : WithinWindow(HitGroup(hits, k), inv.window)

\* The rounds of _eval of the dupe-map InverseSeq in which a reset invalidates
\* the frame, for every Scan the matcher accepts next: the matcher before the
\* round, the assert dropped and the matcher after the round.
ResetRounds ==
    IF which # "InverseSeq" \/ inv.impl # "map" THEN {}
    ELSE UNION { { [before |-> b,
                    drop   |-> InverseSeq_resetDrop(b, ts),
                    after  |-> InverseSeq_evalRound(b, ts, FALSE).r] :
                   b \in {x \in UNION {InverseSeq_evalRounds(f, ts) :
                                          f \in InverseSeq_ScanFrame(
                                                   inv, [ts |-> ts, line |-> line,
                                                         id |-> nextId])} :
                             InverseSeq_resetDrop(x, ts).term > 0} } :
                 ts \in Times, line \in InvLines }

\* The assert at position p of slot j stays in its slot through the round x.
KeptInSlot(x, j, p) ==
    x.before.terms[j].asserts[p].id \in Ids(x.after.terms[j].asserts)

\* The round x removes the assert at the anchor of the reset.
AnchorDropped(x) ==
    x.before.terms[x.drop.term].asserts[x.drop.offset + 1].id
        \notin Ids(x.after.terms[x.drop.term].asserts)

NotOlder(m, deadline) == SelectSeq(m, LAMBDA a : a.ts >= deadline)

\* What GarbageCollect(clock) is said to leave of MatchSeq r once it does not
\* skip: slot 0 without the asserts older than clock - window, then miniGC.
SeqCollected(r, clock) ==
    MatchSeq_miniGC([r EXCEPT !.terms[1].asserts = NotOlder(@, clock - r.window)])

\* C28 as stated: MatchSeq.GarbageCollect(clock) changes nothing when no slot is
\* active or the first assert of slot 0 is within the window of clock, and
\* otherwise removes from slot 0 exactly the asserts older than clock - window
\* and then runs miniGC.
C28_SeqGarbageCollectAsStated ==
    which = "MatchSeq" =>
        \A clock \in Times :
            IF seq.nActive = 0 \/ clock - seq.terms[1].asserts[1].ts < seq.window
            THEN MatchSeq_GarbageCollect(seq, clock) = seq
            ELSE MatchSeq_GarbageCollect(seq, clock) = SeqCollected(seq, clock)

\* C28: MatchSeq.GarbageCollect(clock) removes from slot 0 exactly the asserts
\* older than clock - window and then runs miniGC, whatever the state; the skip
\* is made by maybeGC, which changes nothing when no slot is active or the first
\* assert of slot 0 is within the window of clock, and collects otherwise.
C28_SeqGarbageCollect ==
    which = "MatchSeq" =>
        \A clock \in Times :
            /\ MatchSeq_GarbageCollect(seq, clock) = SeqCollected(seq, clock)
            /\ MatchSeq_maybeGC(seq, clock) =
                  IF seq.nActive = 0 \/ clock - seq.terms[1].asserts[1].ts < seq.window
                  THEN seq
                  ELSE SeqCollected(seq, clock)

\* Slot 0 holds a stale assert behind which GarbageCollect keeps a later one:
\* the collection of GCOldTerms with asserts left over.
C28_Witness ==
    /\ which = "MatchSeq"
    /\ \E clock \in Times :
          LET m    == seq.terms[1].asserts
              kept == NotOlder(m, clock - seq.window)
          IN  /\ 0 < Len(kept)
              /\ Len(kept) < Len(m)
              /\ MatchSeq_GarbageCollect(seq, clock).terms[1].asserts = kept
              /\ MatchSeq_GarbageCollect(seq, clock).nActive < seq.nActive

\* The reset observations InverseSeq r holds, reset by reset.
ResetStamps(r) == [k \in DOMAIN r.resets |-> r.resets[k].resets]

\* C29: when every slot of InverseSeq is satisfied and a reset is configured,
\* GarbageCollect(clock) removes no assert and no reset observation and changes
\* nothing but gcMark, which it sets to disabled.
C29_FullFrameNotCollected ==
    (which = "InverseSeq" /\ inv.nActive = Len(inv.terms) /\ Len(inv.resets) > 0) =>
        \A clock \in Times :
            LET g == InverseSeq_GarbageCollect(inv, clock)
            IN  /\ [i \in DOMAIN g.terms |-> g.terms[i].asserts]
                      = [i \in DOMAIN inv.terms |-> inv.terms[i].asserts]
                /\ ResetStamps(g) = ResetStamps(inv)
                /\ g.gcMark = disableGC
                /\ [g EXCEPT !.gcMark = inv.gcMark] = inv

\* A frame waits on its reset window with a mark set, at a clock for which a
\* collection of slot 0 would drop an assert of the frame.
C29_Witness ==
    /\ which = "InverseSeq"
    /\ inv.nActive = Len(inv.terms)
    /\ Len(inv.resets) > 0
    /\ inv.gcMark # disableGC
    /\ \E clock \in Times :
          AllAsserts(InverseSeq_gcTerms(inv, clock - inv.gcRight).terms)
              # AllAsserts(inv.terms)

\* The Scans MatchSeq accepts next that complete a full frame: the entry, the
\* matcher with the entry appended to its active slots (seq.go:56-60) and the
\* result of the Scan.
SeqFires ==
    IF which # "MatchSeq" THEN {}
    ELSE { x \in { [e     |-> [ts |-> ts, line |-> line, id |-> nextId],
                    frame |-> appendActive(
                                  MatchSeq_maybeGC([seq EXCEPT !.clock = ts], ts),
                                  [ts |-> ts, line |-> line, id |-> nextId]),
                    res   |-> MatchSeq_Scan(seq, [ts |-> ts, line |-> line,
                                                  id |-> nextId])] :
                   ts \in {t \in Times : t >= seq.clock}, line \in SeqLines } :
           x.res.hits.Cnt = 1 }

OrdLines == {"a", "b", "c", "d"}

OrdConfigs ==
    { [window |-> 1, terms |-> <<"a", "b", "c">>],
      [window |-> 1, terms |-> <<"a", "b", "c", "d">>] }

InitOrd ==
    /\ which = "MatchSeq"
    /\ \E c \in OrdConfigs : seq = NewMatchSeq(c.window, c.terms)
    /\ set = Unused
    /\ inv = Unused
    /\ InitCommon

OrdScan ==
    /\ which = "MatchSeq"
    /\ \E ts \in 0..MaxOrdTime, line \in OrdLines :
        \E res \in {MatchSeq_Scan(seq, [ts |-> ts, line |-> line, id |-> nextId])} :
        LET kept == Retained(res.r.terms, res.hits, nextId)
        IN  /\ kept => nextId <= MaxOrdEntries
            /\ nextId' = IF kept THEN nextId + 1 ELSE nextId
            /\ seq' = res.r
            /\ hits' = res.hits
            /\ op' = [kind |-> "Scan", late |-> ts < seq.clock]
            /\ emitted' = EmittedAfter(emitted, res.hits, res.r.terms)
    /\ UNCHANGED <<which, twin, call, offered, invHits, set, inv, seen>>

NextOrd == OrdScan

SpecOrd == InitOrd /\ [][NextOrd]_vars

\* The matcher of a Scan of entry e once the clock is set, the collection has
\* run and e is appended to the active slots it matches (seq.go:52-60).
SeqFrame(r, e) == appendActive(MatchSeq_maybeGC([r EXCEPT !.clock = e.ts], e.ts), e)

\* C31: a hit of a MatchSeq without duplicate terms is the earliest remaining
\* assert of every slot but the last followed by the scanned entry, its entries
\* are in sequence order, none of them was returned by an earlier hit, and the
\* asserts of slot 0 the hit does not take stay buffered.
C31_SeqSuccessiveHits ==
    [][ (which = "MatchSeq" /\ op'.kind = "Scan" /\ hits'.Cnt > 0
            /\ \A i \in DOMAIN seq.dupeMap : seq.dupeMap[i] = 0) =>
            LET n == Len(seq.terms)
                e == hits'.Logs[Len(hits'.Logs)]
                f == SeqFrame(seq, e)
            IN  /\ Len(hits'.Logs) = n
                /\ \A i \in 1..(n - 1) : hits'.Logs[i] = f.terms[i].asserts[1]
                /\ NonDecreasing(Stamps(hits'.Logs))
                /\ Ids(hits'.Logs) \cap emitted = {}
                /\ seq'.terms[1].asserts = Tail(f.terms[1].asserts) ]_vars

\* The entries InverseSeq accepts next that do not match the first slot.
OffFirstSlot ==
    IF which # "InverseSeq" THEN {}
    ELSE { e \in { [ts |-> ts, line |-> line, id |-> nextId] :
                      ts \in {t \in Times : t >= inv.clock}, line \in InvLines } :
           ~makeRawMatch(inv.terms[1].matcher, e.line) }

C33_SeqActiveSlots ==
    which = "MatchSeq" =>
        /\ seq.nActive < Len(seq.terms)
        /\ \A i \in 1..seq.nActive :
              Len(seq.terms[i].asserts) >= seq.dupeMap[i] + 1

\* A full frame has just fired and left an active slot of duplicate terms
\* behind it.
C33_Witness ==
    /\ which = "MatchSeq"
    /\ op.kind = "Scan"
    /\ hits.Cnt = 1
    /\ seq.nActive > 0
    /\ seq.dupeMap[1] > 0

\* C34: after every Scan or GarbageCollect of MatchSet, the hot bit of slot i
\* is set if and only if the slot holds more than dupeMap[i] asserts.
C34_SetHotMask ==
    which = "MatchSet" =>
        \A i \in DOMAIN set.terms :
            mask_IsSet(set.hotMask, i) <=> Len(set.terms[i].asserts) > set.dupeMap[i]

\* A collection has just made a slot of duplicate terms fall back under its
\* count: asserts are left in it and its hot bit is clear.
C34_Witness ==
    /\ which = "MatchSet"
    /\ op.kind = "GarbageCollect"
    /\ \E i \in DOMAIN set.terms :
          /\ set.dupeMap[i] > 0
          /\ Len(set.terms[i].asserts) > 0
          /\ ~mask_IsSet(set.hotMask, i)
          /\ \E id \in 1..(nextId - 1) :
                id \notin AllAsserts(set.terms) /\ id < set.terms[i].asserts[1].id

\* The timestamps of all the asserts MatchSet retains.
SetStamps(r) ==
    UNION { {r.terms[i].asserts[k].ts : k \in DOMAIN r.terms[i].asserts} :
            i \in DOMAIN r.terms }

\* C35: after every Scan or GarbageCollect of MatchSet, gcMark is the smallest
\* timestamp among the asserts of all slots, or disableGC when no slot holds
\* an assert.
C35_SetGcMark ==
    which = "MatchSet" =>
        IF SetStamps(set) = {} THEN set.gcMark = disableGC
        ELSE /\ set.gcMark \in SetStamps(set)
             /\ \A t \in SetStamps(set) : set.gcMark <= t

\* A collection has just dropped the oldest asserts and moved the mark to a
\* later timestamp that a slot still holds.
C35_Witness ==
    /\ which = "MatchSet"
    /\ op.kind = "GarbageCollect"
    /\ set.gcMark # disableGC
    /\ set.gcMark > 0
    /\ Cardinality(SetStamps(set)) > 1

\* Every slot of the term list holds its asserts in timestamp order.
SlotsInOrder(terms) ==
    \A i \in DOMAIN terms : NonDecreasing(Stamps(terms[i].asserts))

\* C36: in every matcher the asserts of every slot are in non-decreasing
\* timestamp order after every operation, and so are they after the round of
\* _eval in which a reset removes a single assert.
C36_AssertsInOrder ==
    /\ which = "MatchSeq" => SlotsInOrder(seq.terms)
    /\ which = "MatchSet" => SlotsInOrder(set.terms)
    /\ which = "InverseSeq" =>
          /\ SlotsInOrder(inv.terms)
          /\ \A x \in ResetRounds : SlotsInOrder(x.after.terms)

\* Eval has advanced the clock of an InverseSeq whose slot holds asserts of
\* two timestamps, and a reset is about to remove one assert of a slot and
\* leave two of different timestamps in another.
C36_Witness ==
    /\ which = "InverseSeq"
    /\ op.kind = "Eval"
    /\ ~op.late
    /\ \E x \in ResetRounds :
          \E i \in DOMAIN x.after.terms :
              /\ Len(x.after.terms[i].asserts) > 1
              /\ x.after.terms[i].asserts[1].ts
                    < x.after.terms[i].asserts[Len(x.after.terms[i].asserts)].ts

\* The number of terms of the pattern of the matcher under test, duplicate
\* terms counted.
PatternTerms ==
    IF which = "MatchSeq" THEN Len(SeqPattern(seq.terms, seq.dupeMap))
    ELSE IF which = "MatchSet" THEN Len(SeqPattern(set.terms, set.dupeMap))
    ELSE IF inv.impl = "mask" THEN Len(inv.terms)
    ELSE Len(SeqPattern(inv.terms, inv.dupeMap))

\* C37: every Hits value a Scan or an Eval returns has len(Logs) = Cnt * G,
\* G the number of terms of the pattern with its duplicates, also when one
\* call of InverseSeq returns several hits.
C37_HitsLength ==
    which \in {"MatchSeq", "MatchSet", "InverseSeq"} =>
        Len(hits.Logs) = hits.Cnt * PatternTerms

\* One call of InverseSeq has returned two hits.
C37_Witness ==
    /\ which = "InverseSeq"
    /\ hits.Cnt > 1

(* ------------- InverseSeq: the same stream with and without ------------ *)
(* ------------------- GarbageCollect calls of the owner ----------------- *)

\* Two matchers built by the same constructor call: inv is collected by its
\* owner between the operations, twin.r never is; both take every Scan and
\* every Eval (each still runs the maybeGC of its own Scan).
InitTwin ==
    /\ which = "Twin"
    /\ \E c \in AnyConfigs, impl \in {"mask", "map"} :
           /\ NewInverseSeq_err(impl, c.terms, c.resets) = "nil"
           /\ inv = NewInverseSeq(impl, c.window, c.terms, c.resets)
           /\ twin = [r |-> inv, hits |-> NoHits]
    /\ seq = Unused
    /\ set = Unused
    /\ hits = NoHits
    /\ op = [kind |-> "New", late |-> FALSE]
    /\ nextId = 1
    /\ emitted = {}
    /\ seen = <<>>
    /\ invHits = NoHits
    /\ offered = <<>>
    /\ call = NoCall

TwinScan ==
    /\ which = "Twin"
    /\ nextId <= MaxInvEntries
    /\ \E ts \in Times, line \in InvLines :
        LET e    == [ts |-> ts, line |-> line, id |-> nextId]
            res  == InverseSeq_Scan(inv, e)
            res2 == InverseSeq_Scan(twin.r, e)
        IN  /\ ResetCount(res.r.resets, 1) <= MaxResets
            /\ ResetCount(res2.r.resets, 1) <= MaxResets
            /\ nextId' = IF Retained(res.r.terms, res.hits, nextId)
                            \/ Retained(res2.r.terms, res2.hits, nextId)
                         THEN nextId + 1 ELSE nextId
            /\ inv' = res.r
            /\ hits' = res.hits
            /\ twin' = [r |-> res2.r, hits |-> res2.hits]
            /\ op' = [kind |-> "Scan", late |-> ts < inv.clock]
    /\ UNCHANGED <<which, call, offered, invHits, seq, set, emitted, seen>>

TwinEval ==
    /\ which = "Twin"
    /\ \E clock \in Times :
        LET res  == InverseSeq_Eval(inv, clock)
            res2 == InverseSeq_Eval(twin.r, clock)
        IN  /\ inv' = res.r
            /\ hits' = res.hits
            /\ twin' = [r |-> res2.r, hits |-> res2.hits]
            /\ op' = [kind |-> "Eval", late |-> clock <= inv.clock]
    /\ UNCHANGED <<which, call, offered, invHits, seq, set, nextId, emitted, seen>>

\* GarbageCollect(c) with c the clock of the matcher, on inv only.
TwinGarbageCollect ==
    /\ which = "Twin"
    /\ inv' = InverseSeq_GarbageCollect(inv, inv.clock)
    /\ hits' = NoHits
    /\ twin' = [twin EXCEPT !.hits = NoHits]
    /\ op' = [kind |-> "GarbageCollect", late |-> FALSE]
    /\ UNCHANGED <<which, call, offered, invHits, seq, set, nextId, emitted, seen>>

NextTwin == TwinScan \/ TwinEval \/ TwinGarbageCollect

SpecTwin == InitTwin /\ [][NextTwin]_vars

\* C38: GarbageCollect calls at the current clock, inserted between the
\* operations of an InverseSeq, change the hits of no later Scan or Eval: the
\* collected matcher and the uncollected one return the same hits.
C38_GarbageCollectTransparent ==
    which = "Twin" => hits = twin.hits

\* The number of asserts the slots hold.
BufferedAsserts(r) == SumSeq([i \in DOMAIN r.terms |-> Len(r.terms[i].asserts)])

\* The rounds the loop of _eval runs on the full frame r, the round that
\* returns to wait included.
RECURSIVE EvalLoopLength(_, _)
EvalLoopLength(r, clock) ==
    IF r.nActive # Len(r.terms) THEN 0
    ELSE LET n == InverseSeq_evalRound(r, clock, InverseSeq_windowMiss(r))
         IN  IF n.wait \/ BufferedAsserts(n.r) >= BufferedAsserts(r) THEN 1
             ELSE 1 + EvalLoopLength(n.r, clock)

\* Every round of the loop on the full frame r returns to wait or leaves
\* fewer buffered asserts than it found.
RECURSIVE EvalLoopShrinks(_, _)
EvalLoopShrinks(r, clock) ==
    IF r.nActive # Len(r.terms) THEN TRUE
    ELSE LET n == InverseSeq_evalRound(r, clock, InverseSeq_windowMiss(r))
         IN  \/ n.wait
             \/ /\ BufferedAsserts(n.r) < BufferedAsserts(r)
                /\ EvalLoopShrinks(n.r, clock)

\* P holds of every call of _eval the matcher can make next: of the full
\* frame and the clock of every Scan it accepts and of every Eval that moves
\* the clock.
EveryEvalCall(P(_, _)) ==
    /\ \A ts \in Times, line \in InvLines :
           \A f \in InverseSeq_ScanFrame(inv, [ts |-> ts, line |-> line, id |-> nextId]) :
               P(f, ts)
    /\ \A clock \in Times :
           (~evalStale(clock, inv.clock) /\ inv.nActive = Len(inv.terms)) =>
               P([inv EXCEPT !.clock = clock], clock)

EvalLoopBounded(r, clock) ==
    EvalLoopShrinks(r, clock) /\ EvalLoopLength(r, clock) <= BufferedAsserts(r)

EvalLoopShort(r, clock) == EvalLoopLength(r, clock) < 3

\* C39: the loop of _eval of InverseSeq terminates on every call: every round
\* either returns to wait or leaves fewer buffered asserts than it found, and
\* the number of rounds is at most the number of buffered asserts.
C39_EvalLoopTerminates ==
    which = "InverseSeq" => EveryEvalCall(EvalLoopBounded)

\* A call of _eval is due whose loop runs three rounds at least.
C39_Witness ==
    which = "InverseSeq" /\ ~EveryEvalCall(EvalLoopShort)

\* No entry takes two positions of the group g of a hit.
EntriesDistinct(g) == \A j, k \in DOMAIN g : j # k => g[j].id # g[k].id

\* miniGC of the dupe-mask InverseSeq turns pre into post: every assert it
\* drops from an active slot behind non-empty slots is older than the first
\* assert of slot 0 or is the very entry at the head of an earlier slot.
DropsSameEntryOnly(pre, post) ==
    \A i \in 2..pre.nActive :
        (\A j \in 1..(i - 1) : Len(post.terms[j].asserts) > 0) =>
            \A p \in DOMAIN pre.terms[i].asserts :
                LET x == pre.terms[i].asserts[p]
                IN  (x.id \notin Ids(post.terms[i].asserts)
                         /\ x.ts >= pre.terms[1].asserts[1].ts) =>
                        \E j \in 1..(i - 1) : post.terms[j].asserts[1].id = x.id

\* C40: with identical consecutive terms no scanned entry takes two positions
\* of one hit of InverseSeq, and two distinct entries with the same line and
\* timestamp count as two occurrences: the dupe detection of miniGC drops
\* from a slot only the entry that an earlier slot already holds at its head.
C40_DupeEntriesCounted ==
    which = "InverseSeq" =>
        /\ \A k \in 1..hits.Cnt : EntriesDistinct(HitGroup(hits, k))
        /\ (inv.impl = "mask" /\ ~gcDeferred(inv)) =>
               LET pre == InverseSeq_gcTerms(inv, inv.clock - inv.gcRight)
               IN  DropsSameEntryOnly(pre, InvSeqMask_miniGC(pre))

====
